---- MODULE Spec2Model ----
(***************************************************************************)
(* Graft: deployment sync and rollback engine.                             *)
(*                                                                         *)
(* The model follows internal/deploy/sync.go (Sync, SyncService,           *)
(* SyncComposeOnly), internal/server/deploy/rollback.go (PerformBackup,    *)
(* RestoreRollback, RestoreServiceRollback) and the rollback executors     *)
(* (RunRollbackConfig) and the environment transform of                    *)
(* internal/server/deploy/utils.go (ProcessServiceEnvironment).            *)
(* One invocation runs at a time; every invocation                         *)
(* is one action that issues its remote commands in source order and       *)
(* records them in `log`.  The outcome of every remote command is an       *)
(* input: the set F of command kinds that fail during the invocation.      *)
(***************************************************************************)
EXTENDS Integers, Sequences, FiniteSets, TLC

(* ---------------------------------------------------------------------- *)
(* Bounds                                                                  *)
(* ---------------------------------------------------------------------- *)
MaxTime == 2          \* seconds the remote clock can show
MaxRetention == 2     \* largest retention count that can be configured
MaxOps == 3           \* backup and rollback invocations explored per run
MaxSyncs == 1         \* sync invocations explored per run
MaxFailures == 1      \* remote commands that may fail in one invocation
MaxImageId == 2       \* distinct image contents
MaxEnvFiles == 2      \* env_file entries of one service
MaxTransfers == 2     \* transfers into one service directory per run

(* ---------------------------------------------------------------------- *)
(* Names, tags, manifests                                                  *)
(* ---------------------------------------------------------------------- *)
Services == {"web", "api"}
Envname == "prod"

\* A project name is the list of its "-"-separated parts.
ProjectNames == {<<"app", "prod">>}

\* A tag is the list of its characters (names are kept as one character).
NoTag == <<>>
TagSlash == <<"a", "/", "b">>
TagUnder == <<"a", "_", "b">>
TagColon == <<"r", ":", "1">>

DefaultTag(s) == <<"app", "-", s>>
\* sync.go:710: ghcr.io/<owner>/<repo>/<service>:latest
GhcrTag(s) == <<"ghcr.io", "/", "owner", "/", "repo", "/", s, ":", "latest">>
Tags == {TagSlash, TagUnder, TagColon}
        \cup {DefaultTag(s) : s \in Services} \cup {GhcrTag(s) : s \in Services}

ImageIds == 1..MaxImageId
NoImage == 0

NoManifest == [none |-> TRUE]
NoBuild == <<>>

\* ComposeService (part_001:23-30): build context, image, literal
\* environment (0 = none, otherwise the id of its content), env_file
\* reference, graft.mode label ("" = no label).  `args` says whether the
\* build section of the file holds keys other than context and dockerfile.
Svc(image, build, mode, environment) ==
  [image |-> image, build |-> build, mode |-> mode,
   environment |-> environment, env_file |-> FALSE, args |-> FALSE]

\* ParseComposeFile (part_001:37-47, utils.go:58-74): the file is decoded
\* into DockerComposeFile; BuildConfig keeps context and dockerfile only, so
\* every other key of a build section is gone from what is marshalled later.
ParseComposeFile(m) ==
  IF m = NoManifest THEN NoManifest
  ELSE [s \in DOMAIN m |-> [m[s] EXCEPT !.args = FALSE]]

\* getGraftMode: the label value, "localbuild" when there is no label.
getGraftMode(def) == IF def.mode = "" THEN "localbuild" ELSE def.mode

\* The local graft-compose.yml files the runs are tried on.
ManifestPullBuild ==
  [s \in Services |->
     IF s = "web" THEN Svc(TagSlash, NoBuild, "", 1)
     ELSE [Svc(NoTag, <<"src", "api">>, "serverbuild", 0) EXCEPT !.args = TRUE]]
ManifestCollide ==
  [s \in Services |->
     IF s = "web" THEN Svc(TagSlash, NoBuild, "", 2)
     ELSE Svc(TagUnder, NoBuild, "", 1)]
ManifestLocalBuild ==
  [s \in {"web"} |-> Svc(NoTag, <<".">>, "", 0)]
LocalManifests == {ManifestPullBuild, ManifestCollide, ManifestLocalBuild}
\* A project whose service is built by the registry's pipeline.
ManifestGitImages ==
  [s \in {"web"} |-> Svc(NoTag, <<".">>, "git-images", 0)]

\* git.GetRemoteURL(".", "origin"): the URL of the origin remote, as its
\* prefix and the "/"-separated parts after the host; NoRemote when the
\* repository has no origin.
NoRemote == [scheme |-> "none", host |-> "", segs |-> <<>>]
RemoteURLs ==
  {[scheme |-> "https://", host |-> "github.com", segs |-> <<"Owner", "repo">>],
   [scheme |-> "git@", host |-> "github.com", segs |-> <<"owner", "repo">>],
   [scheme |-> "ssh://", host |-> "git@github.com", segs |-> <<"owner", "repo">>],
   NoRemote}

\* strings.ToLower on the names in use.
ToLower(parts) ==
  [i \in DOMAIN parts |-> IF parts[i] = "Owner" THEN "owner" ELSE parts[i]]

\* sync.go:695-707: ownerRepo, the last two "/"-separated parts of an
\* https URL, or what follows the first ":" of a git@ URL; empty for any
\* other URL.
OwnerRepo(url) ==
  IF url.scheme = "https://"
  THEN LET parts == <<"https:", "", url.host>> \o url.segs
       IN <<parts[Len(parts) - 1], parts[Len(parts)]>>
  ELSE IF url.scheme = "git@" THEN url.segs
  ELSE <<>>

\* sync.go:710: ghcr.io/<ownerRepo>/<service>:latest
GhcrImage(ownerRepo, s) ==
  <<"ghcr.io", "/", ownerRepo[1], "/", ownerRepo[2], "/", s, ":", "latest">>

\* tr ':/' '__' (rollback.go:51, 106)
Sanitize(tag) ==
  [i \in 1..Len(tag) |-> IF tag[i] \in {":", "/"} THEN "_" ELSE tag[i]]

\* One line of `docker compose config --images` for a service: its image,
\* or the default name of the image compose builds for it.
ExpectedTag(s, def) == IF def.image # NoTag THEN def.image ELSE DefaultTag(s)
ImageTags(m) ==
  IF m = NoManifest THEN {} ELSE {ExpectedTag(s, m[s]) : s \in DOMAIN m}

\* Sync/SyncService/SyncComposeOnly: remoteProjName (sync.go:27-31).
RemoteProjName(name, envname) ==
  IF Len(name) >= 2 /\ name[Len(name)] = envname THEN name
  ELSE Append(name, envname)

(* ---------------------------------------------------------------------- *)
(* Helpers                                                                 *)
(* ---------------------------------------------------------------------- *)
RECURSIVE SetToSeq(_)
SetToSeq(S) ==
  IF S = {} THEN <<>>
  ELSE LET x == CHOOSE y \in S : TRUE IN <<x>> \o SetToSeq(S \ {x})

Perms(S) ==
  {q \in [1..Cardinality(S) -> S] : \A i, j \in DOMAIN q : i # j => q[i] # q[j]}

NoEnv == [s \in Services |-> 0]
\* cp -r src/env dst/ : files of src replace those of dst, others stay.
MergeEnv(src, dst) == [s \in Services |-> IF src[s] # 0 THEN src[s] ELSE dst[s]]

\* One remote command or file transfer, and whether it succeeded.
Cmd(k, a, ok) == [k |-> k, a |-> a, ok |-> ok]

\* The sets of at most n of the given command kinds.
RECURSIVE UpTo(_, _)
UpTo(kinds, n) ==
  IF n = 0 THEN {{}}
  ELSE UpTo(kinds, n - 1) \cup {S \cup {k} : S \in UpTo(kinds, n - 1), k \in kinds}
FailSets(kinds) == UpTo(kinds, MaxFailures)

(* ---------------------------------------------------------------------- *)
(* State                                                                   *)
(* ---------------------------------------------------------------------- *)
VARIABLES
  now,              \* remote clock, in seconds (date +%Y%m%d%H%M%S)
  pname,            \* p.Name handed to the sync functions
  rollbackBackups,  \* meta.RollbackBackups, copied to p.RollbackBackups
  registryRollback, \* rollback_backups entry of the remote projects registry
  manifest,         \* remote docker-compose.yml of the project directory
  envdir,           \* remote env/ directory: service -> content (0 = no file)
  images,           \* image store of the host: tag -> content (0 = absent)
  running,          \* services whose container runs
  srcdirs,          \* remote service directories that hold uploaded source
  snapshots,        \* backup/<project>/ : timestamp -> snapshot
  localEnv,         \* local env/ directory
  localCompose,     \* local generated docker-compose.yml
  ops,              \* invocations so far
  backups,          \* PerformBackup runs so far that found a manifest to back up
  faults,           \* commands and source checks that failed so far
  last,             \* the last invocation: operation, arguments, result
  log,              \* remote commands and transfers of the last invocation
  transform,        \* the last run of the environment transform on a service
  projectDirs,      \* the remote directories made for (project, environment)
  serviceDir,       \* one remote service directory and the last transfer into it
  resolved,         \* the last tag the load loop resolved for an archive
  gitExport,        \* two --git syncs that differ in the working directory only
  racing,           \* two invocations on one project, command by command
  contextDirs,      \* the service directories after the transfers of one Sync
  mergedRuns        \* two runs of the transform on one service, each with its iteration orders

vars == <<now, pname, rollbackBackups, registryRollback,
          manifest, envdir, images, running, srcdirs, snapshots, localEnv,
          localCompose, ops, backups, faults, last, log, transform,
          projectDirs, serviceDir, resolved,
          gitExport,
          racing,
          contextDirs,
          mergedRuns>>

EmptySnapshot == [manifest |-> NoManifest, env |-> NoEnv, archives |-> <<>>]

(* ---------------------------------------------------------------------- *)
(* PerformBackup (rollback.go:15-63)                                       *)
(* ---------------------------------------------------------------------- *)
BackupKinds == {"ls_manifest", "date", "mkdir_backup", "cp_manifest_backup",
                "cp_env_backup", "save_images", "rotate"}

\* The project directory PerformBackup looks at is /opt/graft/projects/<p.Name>
\* (rollback.go:20); the sync functions work on
\* /opt/graft/projects/<remoteProjName> (sync.go:27-31).  Only the latter is
\* ever written, so the former holds a manifest only when the two coincide.
BackupSeesProject(name) == name = RemoteProjName(name, Envname)
BackupManifest(name) == IF BackupSeesProject(name) THEN manifest ELSE NoManifest
BackupEnv(name) == IF BackupSeesProject(name) THEN envdir ELSE NoEnv

\* BackupSkipped without the retention test of rollback.go:16-18.
BackupSkippedOnlyUndeployed(name, retention, F) ==
  \/ BackupManifest(name) = NoManifest
  \/ "ls_manifest" \in F

\* rollback.go:16-25: no backup when retention <= 0 or `ls` of the manifest fails.
BackupSkipped(name, retention, F) ==
  \/ retention <= 0
  \/ BackupManifest(name) = NoManifest
  \/ "ls_manifest" \in F

\* rollback.go:48-56: one archive and one sidecar per tag that resolves to an
\* image, named by the sanitized tag; a later tag with the same sanitized
\* name overwrites both files.
RECURSIVE SaveArchives(_, _)
SaveArchives(archives, order) ==
  IF order = <<>> THEN archives
  ELSE LET tag == Head(order)
           fname == Sanitize(tag)
           saved == [f \in DOMAIN archives \cup {fname} |->
                       IF f = fname
                       THEN [tag |-> tag, img |-> [tag |-> tag, id |-> images[tag]]]
                       ELSE archives[f]]
       IN SaveArchives(IF images[tag] # NoImage THEN saved ELSE archives,
                       Tail(order))

\* rollback.go:59: ls -1dt * | tail -n +(N+1) | xargs rm -rf.  The clock never
\* runs backwards, so newest-first by modification time is newest-first by
\* timestamp.
KeepNewest(snaps, n) ==
  LET kept == {t \in DOMAIN snaps :
                 Cardinality({u \in DOMAIN snaps : u > t}) < n}
  IN [t \in kept |-> snaps[t]]

\* The snapshot directory after rollback.go:40-56 (before rotation).
BackupWritten(name, F, order) ==
  LET exists == now \in DOMAIN snapshots
      old == IF exists THEN snapshots[now] ELSE EmptySnapshot
      dirOk == exists \/ "mkdir_backup" \notin F
      src == BackupManifest(name)
      new == [manifest |-> IF "cp_manifest_backup" \in F THEN old.manifest ELSE src,
              env |-> IF "cp_env_backup" \in F THEN old.env
                      ELSE MergeEnv(BackupEnv(name), old.env),
              archives |-> IF "save_images" \in F THEN old.archives
                           ELSE SaveArchives(old.archives, order)]
  IN IF dirOk
     THEN [t \in DOMAIN snapshots \cup {now} |-> IF t = now THEN new ELSE snapshots[t]]
     ELSE snapshots

BackupSnapshots(name, retention, F, order) ==
  IF BackupSkipped(name, retention, F) \/ "date" \in F THEN snapshots
  ELSE IF "rotate" \in F THEN BackupWritten(name, F, order)
  ELSE KeepNewest(BackupWritten(name, F, order), retention)

BackupLog(name, retention, F) ==
  IF retention <= 0 THEN <<>>
  ELSE IF BackupSkipped(name, retention, F)
  THEN <<Cmd("ls_manifest", <<>>, FALSE)>>
  ELSE IF "date" \in F
  THEN <<Cmd("ls_manifest", <<>>, TRUE), Cmd("date", <<>>, FALSE)>>
  ELSE LET dirOk == now \in DOMAIN snapshots \/ "mkdir_backup" \notin F
       IN <<Cmd("ls_manifest", <<>>, TRUE),
            Cmd("date", <<>>, TRUE),
            Cmd("mkdir_backup", <<>>, "mkdir_backup" \notin F),
            Cmd("cp_manifest_backup", <<>>, dirOk /\ "cp_manifest_backup" \notin F),
            Cmd("cp_env_backup", <<>>,
                dirOk /\ "cp_env_backup" \notin F /\ BackupEnv(name) # NoEnv),
            Cmd("save_images", <<>>, dirOk /\ "save_images" \notin F),
            Cmd("rotate", <<>>, "rotate" \notin F)>>

\* PerformBackup's return value: nil when skipped or done, an error only
\* when the timestamp query fails (rollback.go:28-31).
BackupResult(name, retention, F) ==
  IF BackupSkipped(name, retention, F) THEN "skipped"
  ELSE IF "date" \in F THEN "error"
  ELSE "ok"

\* The orders in which `docker compose config --images` may list the tags.
BackupOrders(name, retention, F) ==
  IF BackupSkipped(name, retention, F) \/ {"date", "save_images"} \cap F # {}
  THEN {<<>>}
  ELSE Perms(ImageTags(BackupManifest(name)))

BackupFailSets(name, retention) ==
  IF retention <= 0 \/ BackupManifest(name) = NoManifest THEN {{}}
  ELSE FailSets(BackupKinds)

(* ---------------------------------------------------------------------- *)
(* RestoreRollback (rollback.go:65-122)                                    *)
(* ---------------------------------------------------------------------- *)
RestoreKinds == {"cp_manifest_restore", "cp_env_restore", "config_images",
                 "down", "rmi", "load_images", "up_pull_never"}

SnapshotAt(ts) == IF ts \in DOMAIN snapshots THEN snapshots[ts] ELSE EmptySnapshot

\* rollback.go:99-110: the tag the load loop resolves for an archive: the
\* sidecar's content, else the expected tag whose sanitized form is the file
\* name, else the file name itself.
\* `order` is the output of `docker compose config --images`, line by line;
\* the inner loop stops at the first line that matches (rollback.go:104-107).
RECURSIVE FirstMatch(_, _)
FirstMatch(fname, order) ==
  IF order = <<>> THEN NoTag
  ELSE IF Sanitize(Head(order)) = fname THEN Head(order)
  ELSE FirstMatch(fname, Tail(order))

ResolveTagIn(fname, sidecar, order) ==
  IF sidecar # NoTag THEN sidecar
  ELSE IF FirstMatch(fname, order) # NoTag THEN FirstMatch(fname, order)
  ELSE fname

\* Every archive PerformBackup writes has a sidecar, and with a sidecar the
\* order of the listing does not matter.
ResolveTag(fname, archive, expected) ==
  ResolveTagIn(fname, archive.tag, SetToSeq(expected))

\* The tag of a loaded image if it were the archive's file name.
LoadedTagFileName(fname, archive) == fname

\* rollback.go:113: docker load restores the image under the tag that docker
\* save (rollback.go:53) stored inside the archive.
LoadedTag(fname, archive) == archive.img.tag

\* rollback.go:97-115: per archive, rmi -f of the resolved tag, then docker
\* load.
RECURSIVE LoadImages(_, _, _, _)
LoadImages(imgs, archives, todo, expected) ==
  IF todo = <<>> THEN imgs
  ELSE LET fname == Head(todo)
           a == archives[fname]
           tag == ResolveTag(fname, a, expected)
           removed == [t \in Tags |-> IF t = tag THEN NoImage ELSE imgs[t]]
           loaded == [t \in Tags |-> IF t = LoadedTag(fname, a) THEN a.img.id
                                     ELSE removed[t]]
       IN LoadImages(loaded, archives, Tail(todo), expected)

\* rollback.go:72: sudo cp <backup>/compose/docker-compose.yml <remoteDir>/
RestoredManifest(ts, F) ==
  IF "cp_manifest_restore" \notin F /\ SnapshotAt(ts).manifest # NoManifest
  THEN SnapshotAt(ts).manifest
  ELSE manifest

\* rollback.go:73: sudo cp -r <backup>/compose/env <remoteDir>/
RestoredEnv(ts, F) ==
  IF "cp_env_restore" \notin F THEN MergeEnv(SnapshotAt(ts).env, envdir) ELSE envdir

\* rollback.go:79-80: the tags of the manifest now in the project directory.
RestoreTags(ts, F) ==
  IF "config_images" \in F THEN {} ELSE ImageTags(RestoredManifest(ts, F))

\* rollback.go:83: docker compose down
RestoreDownOk(ts, F) == "down" \notin F /\ RestoredManifest(ts, F) # NoManifest

\* rollback.go:86-92: docker rmi -f of every expected tag.
RestoreAfterRmi(ts, F) ==
  [t \in Tags |-> IF t \in RestoreTags(ts, F) /\ "rmi" \notin F THEN NoImage
                  ELSE images[t]]

\* rollback.go:96-116
RestoreAfterLoad(ts, F) ==
  IF "load_images" \in F THEN RestoreAfterRmi(ts, F)
  ELSE LoadImages(RestoreAfterRmi(ts, F), SnapshotAt(ts).archives,
                  SetToSeq(DOMAIN SnapshotAt(ts).archives),
                  ImageTags(RestoredManifest(ts, F)))

\* docker compose up --pull never: a service starts when its image is in
\* the store; an absent image is built when the service has a build
\* descriptor whose source is on the host, and the command fails otherwise.
ContextOnHost(ctx, dirs) == ctx = <<".">> \/ ctx \in dirs

CanStart(s, def, imgs) ==
  \/ imgs[ExpectedTag(s, def)] # NoImage
  \/ def.build # NoBuild /\ ContextOnHost(def.build, srcdirs)

UpBuilds(m, svcs, imgs, bid) ==
  [t \in Tags |->
     IF \E s \in svcs : t = ExpectedTag(s, m[s]) /\ imgs[t] = NoImage
                        /\ m[s].build # NoBuild
     THEN bid ELSE imgs[t]]

\* rollback.go:120-121
RestoreUpOk(ts, F) ==
  LET m == RestoredManifest(ts, F)
  IN /\ "up_pull_never" \notin F
     /\ m # NoManifest
     /\ \A s \in DOMAIN m : CanStart(s, m[s], RestoreAfterLoad(ts, F))

\* The commands of a rollback that loaded the archives before it stopped
\* the services and removed the images.
RestoreLogLoadFirst(ts, F) ==
  LET snap == SnapshotAt(ts)
      tags == SetToSeq(RestoreTags(ts, F))
  IN <<Cmd("cp_manifest_restore", <<>>,
           "cp_manifest_restore" \notin F /\ snap.manifest # NoManifest),
       Cmd("cp_env_restore", <<>>, "cp_env_restore" \notin F /\ snap.env # NoEnv),
       Cmd("config_images", <<>>,
           "config_images" \notin F /\ RestoredManifest(ts, F) # NoManifest),
       Cmd("load_images", <<>>, "load_images" \notin F),
       Cmd("down", <<>>, RestoreDownOk(ts, F))>>
     \o [i \in 1..Len(tags) |-> Cmd("rmi", tags[i], "rmi" \notin F)]
     \o <<Cmd("up_pull_never", <<>>, RestoreUpOk(ts, F))>>

RestoreLog(ts, F) ==
  LET snap == SnapshotAt(ts)
      tags == SetToSeq(RestoreTags(ts, F))
  IN <<Cmd("cp_manifest_restore", <<>>,
           "cp_manifest_restore" \notin F /\ snap.manifest # NoManifest),
       Cmd("cp_env_restore", <<>>, "cp_env_restore" \notin F /\ snap.env # NoEnv),
       Cmd("config_images", <<>>,
           "config_images" \notin F /\ RestoredManifest(ts, F) # NoManifest),
       Cmd("down", <<>>, RestoreDownOk(ts, F))>>
     \o [i \in 1..Len(tags) |-> Cmd("rmi", tags[i], "rmi" \notin F)]
     \o <<Cmd("load_images", <<>>, "load_images" \notin F),
          Cmd("up_pull_never", <<>>, RestoreUpOk(ts, F))>>

(* ---------------------------------------------------------------------- *)
(* RestoreServiceRollback (rollback.go:124-220)                            *)
(* ---------------------------------------------------------------------- *)
RestoreServiceKinds == {"download_backup_manifest", "download_manifest",
                        "upload_manifest", "cp_env_restore", "config_images",
                        "stop_rm", "load_images", "up_pull_never"}

\* rollback.go:132-134
BackupComposeDownloaded(ts, F) ==
  "download_backup_manifest" \notin F /\ SnapshotAt(ts).manifest # NoManifest

\* rollback.go:137: backupCompose, the parsed manifest of the snapshot.
BackupCompose(ts) == ParseComposeFile(SnapshotAt(ts).manifest)

\* rollback.go:142-145
ServiceInBackup(ts, svc) ==
  /\ BackupCompose(ts) # NoManifest
  /\ svc \in DOMAIN BackupCompose(ts)

\* rollback.go:149-151
CurrentComposeDownloaded(F) == "download_manifest" \notin F /\ manifest # NoManifest

\* rollback.go:142: backupCompose.Services[serviceName]; a map lookup of an
\* absent key yields the zero ComposeService.
BackupSvc(ts, svc) ==
  IF ServiceInBackup(ts, svc) THEN BackupCompose(ts)[svc]
  ELSE Svc(NoTag, NoBuild, "", 0)

\* The manifest RestoreServiceRollback would upload if it put the whole
\* manifest of the snapshot back.
SplicedManifestWhole(ts, svc) ==
  [s \in DOMAIN manifest \cup {svc} |->
     IF s \in DOMAIN BackupCompose(ts) THEN BackupCompose(ts)[s]
     ELSE IF s = svc THEN BackupSvc(ts, svc)
     ELSE ParseComposeFile(manifest)[s]]

\* rollback.go:154-166: the parsed current manifest with
\* currentCompose.Services[serviceName] = backupSvc, marshalled again.
SplicedManifest(ts, svc) ==
  [s \in DOMAIN manifest \cup {svc} |->
     IF s = svc THEN BackupSvc(ts, svc) ELSE ParseComposeFile(manifest)[s]]

\* RestoreServiceAbort without the `exists` test of rollback.go:143-145.
RestoreServiceAbortUnchecked(ts, svc, F) ==
  IF ~BackupComposeDownloaded(ts, F) THEN "download_backup_manifest"
  ELSE IF ~CurrentComposeDownloaded(F) THEN "download_manifest"
  ELSE IF "upload_manifest" \in F THEN "upload_manifest"
  ELSE ""

\* Where the run returns: the first failing step of rollback.go:132-175,
\* "" when all of them pass.
RestoreServiceAbort(ts, svc, F) ==
  IF ~BackupComposeDownloaded(ts, F) THEN "download_backup_manifest"
  ELSE IF ~ServiceInBackup(ts, svc) THEN "service_not_found"
  ELSE IF ~CurrentComposeDownloaded(F) THEN "download_manifest"
  ELSE IF "upload_manifest" \in F THEN "upload_manifest"
  ELSE ""

RestoreServiceManifest(ts, svc, F) ==
  IF RestoreServiceAbort(ts, svc, F) = "" THEN SplicedManifest(ts, svc) ELSE manifest

\* rollback.go:178
RestoreServiceEnv(ts, svc, F) ==
  IF RestoreServiceAbort(ts, svc, F) = "" THEN RestoredEnv(ts, F) ELSE envdir

\* The running services if the rollback stopped the whole project.
RestoreServiceStoppedAll(ts, svc, F) ==
  IF RestoreServiceAbort(ts, svc, F) = "" /\ "stop_rm" \notin F
  THEN {} ELSE running

\* rollback.go:190
RestoreServiceStopped(ts, svc, F) ==
  IF RestoreServiceAbort(ts, svc, F) = "" /\ "stop_rm" \notin F
  THEN running \ {svc} ELSE running

\* rollback.go:194-214: the same load loop as the whole-project rollback,
\* over every archive of the snapshot.
RestoreServiceLoaded(ts, svc, F) ==
  IF RestoreServiceAbort(ts, svc, F) = "" /\ "load_images" \notin F
  THEN LoadImages(images, SnapshotAt(ts).archives,
                  SetToSeq(DOMAIN SnapshotAt(ts).archives),
                  ImageTags(SplicedManifest(ts, svc)))
  ELSE images

\* rollback.go:218-219
RestoreServiceUpOk(ts, svc, F) ==
  /\ RestoreServiceAbort(ts, svc, F) = ""
  /\ "up_pull_never" \notin F
  /\ CanStart(svc, SplicedManifest(ts, svc)[svc], RestoreServiceLoaded(ts, svc, F))

RestoreServiceLog(ts, svc, F) ==
  LET abort == RestoreServiceAbort(ts, svc, F)
      d1 == <<Cmd("download_backup_manifest", <<>>, BackupComposeDownloaded(ts, F))>>
      d2 == <<Cmd("download_manifest", <<>>, CurrentComposeDownloaded(F))>>
      up == <<Cmd("upload_manifest", <<>>, "upload_manifest" \notin F)>>
  IN IF abort \in {"download_backup_manifest", "service_not_found"} THEN d1
     ELSE IF abort = "download_manifest" THEN d1 \o d2
     ELSE IF abort = "upload_manifest" THEN d1 \o d2 \o up
     ELSE d1 \o d2 \o up \o
          <<Cmd("cp_env_restore", <<>>,
                "cp_env_restore" \notin F /\ SnapshotAt(ts).env # NoEnv),
            Cmd("config_images", <<>>, "config_images" \notin F),
            Cmd("stop_rm", <<svc>>, "stop_rm" \notin F),
            Cmd("load_images", <<>>, "load_images" \notin F),
            Cmd("up_pull_never", <<svc>>, RestoreServiceUpOk(ts, svc, F))>>

(* ---------------------------------------------------------------------- *)
(* Compose transform used by the sync functions                            *)
(* ---------------------------------------------------------------------- *)
\* ProcessServiceEnvironment (part_001:60-106): a literal environment is
\* written to env/<service>.env and replaced by an env_file reference.
ProcessServiceEnvironment(def) ==
  IF def.environment = 0 THEN def
  ELSE [def EXCEPT !.environment = 0, !.env_file = TRUE]

\* The local env/ directory after the transform of manifest m.
EnvWritten(le, m) ==
  [s \in Services |->
     IF s \in DOMAIN m /\ m[s].environment # 0 THEN m[s].environment
     ELSE le[s]]

\* sync.go:490-493, 551-554: filepath.Base of the context, the service name
\* when that is "." or "/".
ContextName(s, ctx) ==
  IF ctx[Len(ctx)] \in {".", "/"} THEN s ELSE ctx[Len(ctx)]

\* No service is a server-build service.
IsServerBuildNever(def) == FALSE

\* sync.go:157, 462: mode == "serverbuild" && service.Build != nil
IsServerBuild(def) == getGraftMode(def) = "serverbuild" /\ def.build # NoBuild

\* sync.go:544-558
SyncTransform(m) ==
  [s \in DOMAIN m |->
     LET d == ProcessServiceEnvironment(ParseComposeFile(m)[s])
     IN IF IsServerBuild(d) THEN [d EXCEPT !.build = <<ContextName(s, d.build)>>]
        ELSE d]

\* sync.go:70-75
ServiceTransform(m) ==
  [s \in DOMAIN m |-> ProcessServiceEnvironment(ParseComposeFile(m)[s])]

(* ---------------------------------------------------------------------- *)
(* ProcessServiceEnvironment with environment files (utils.go:87-181)      *)
(* ---------------------------------------------------------------------- *)
\* A file name and an environment name are lists of pieces of text; a piece
\* is "." or holds no dot.
Dot == <<".">>
Prod == <<"prod">>
Environments == {Prod, <<"staging">>, <<"pre", "prod">>}

\* The base names of the env_file entries the transform is tried on.
EnvFileNames ==
  {<<"env">>,
   <<".", "env">>,
   <<"backend", ".", "env">>,
   <<".", "env", ".", "prod">>,
   <<".", "env", ".", "staging">>,
   <<".", "env", ".", "pre", "prod">>,
   <<".", "env", ".", "pre", "prod", ".", "local">>,
   <<"backend", ".", "prod", ".", "env">>}

\* strings.Contains, strings.HasSuffix, strings.Count(basename, ".")
Contains(str, sub) ==
  \E i \in 0..(Len(str) - Len(sub)) : SubSeq(str, i + 1, i + Len(sub)) = sub
HasSuffix(str, suf) ==
  Len(suf) <= Len(str) /\ SubSeq(str, Len(str) - Len(suf) + 1, Len(str)) = suf
CountDots(str) == Cardinality({i \in DOMAIN str : str[i] = "."})

\* utils.go:115-117
isExplicitlyOurs(basename, envname) ==
  \/ Contains(basename, Dot \o envname)
  \/ Contains(basename, envname \o Dot)
  \/ HasSuffix(basename, Dot \o envname)

\* utils.go:120
isGeneric(basename) == CountDots(basename) <= 1

\* utils.go:122-130
shouldInclude(basename, envname) ==
  \/ isExplicitlyOurs(basename, envname)
  \/ isGeneric(basename) /\ envname = Prod

\* utils.go:107-147: the files whose content goes into finalEnvLines: the
\* included ones that can be read and are not empty.
MergedFiles(service, envname, unread) ==
  {f \in service.env_file : shouldInclude(f, envname) /\ f \notin unread}

\* utils.go:175-178: the one reference the service is left with.
MergedReference == {<<"env", "/", "service", ".", "env">>}

\* ProcessServiceEnvironment (utils.go:87-181).  service.environment is 0
\* or the id of the literal entries, service.env_file the set of its
\* env_file entries; writeOk is the outcome of os.MkdirAll and os.WriteFile.
\* The result holds the service as it is left and the error returned.
ProcessServiceEnvironmentFiles(service, envname, unread, writeOk) ==
  IF service.environment = 0 /\ MergedFiles(service, envname, unread) = {}
  THEN [service |-> service, err |-> FALSE, written |-> FALSE]
  ELSE IF ~writeOk
  THEN [service |-> service, err |-> TRUE, written |-> FALSE]
  ELSE [service |-> [service EXCEPT !.environment = 0, !.env_file = MergedReference],
        err |-> FALSE, written |-> TRUE]

\* utils.go:167-168: the merged file is env/<service>.env.<envname>.
MergedEnvPath(envname) == <<"env", "/", "service", ".", "env", ".">> \o envname

\* sync.go:574-588: every file of the local env/ directory is uploaded to
\* <remoteDir>/env/ under its own name.
EnvUploaded(written, envname) ==
  IF written THEN {MergedEnvPath(envname)} ELSE {}

NoTransform == [done |-> FALSE]

(* ---------------------------------------------------------------------- *)
(* Running a list of steps in order                                        *)
(* ---------------------------------------------------------------------- *)
\* A step is a remote command or transfer (or a local check, local = TRUE).
\* `fatal` says whether the code returns when the step fails; `can` is
\* what the local inputs decide about its success; m and c carry the file
\* content of an upload.
Step(k, a, fatal) ==
  [k |-> k, a |-> a, fatal |-> fatal, local |-> FALSE, can |-> TRUE,
   m |-> NoManifest, e |-> NoEnv, c |-> 0, all |-> FALSE]
Check(k, can) == [Step(k, <<>>, TRUE) EXCEPT !.local = TRUE, !.can = can]
May(step, can) == [step EXCEPT !.can = can]
Upload(m, fatal) == [Step("upload_manifest", <<>>, fatal) EXCEPT !.m = m]
UploadEnv(s, c, fatal) == [Step("upload_env", <<s>>, fatal) EXCEPT !.c = c]
Whole(step) == [step EXCEPT !.all = TRUE]
PullAlways(step) == [step EXCEPT !.c = 1, !.a = <<"--pull", "always">>]
\* The transform's local writes: docker-compose.yml and env/<service>.env.
WriteLocal(m, e) ==
  [Step("write_local", <<>>, TRUE) EXCEPT !.local = TRUE, !.m = m, !.e = e]

\* The steps whose outcome is an input: the remote commands and transfers,
\* rsync (an error other than "rsync not found"), and the two local checks
\* of a service's source.
SyncKinds == {"mkdir_proj", "mkdir_svc", "rsync", "upload_tarball", "extract",
              "mkdir_env", "upload_env", "upload_manifest", "stop_rm",
              "builder_prune", "build", "pull", "up", "image_prune",
              "build_context", "dockerfile"}

Host == [manifest |-> manifest, envdir |-> envdir, images |-> images,
         running |-> running, srcdirs |-> srcdirs,
         localEnv |-> localEnv, localCompose |-> localCompose]

StepServices(st, step) ==
  IF st.manifest = NoManifest THEN {}
  ELSE IF step.all THEN DOMAIN st.manifest
  ELSE {s \in DOMAIN st.manifest : <<s>> = step.a}

\* What the host decides about a command's success.
HostAllows(st, step) ==
  LET svcs == StepServices(st, step)
      m == st.manifest
  IN CASE step.k = "build" ->
            /\ m # NoManifest
            /\ \A s \in svcs : m[s].build # NoBuild =>
                                 ContextOnHost(m[s].build, st.srcdirs)
       [] step.k = "up" ->
            /\ m # NoManifest
            /\ \A s \in svcs :
                 \/ m[s].build = NoBuild
                 \/ st.images[ExpectedTag(s, m[s])] # NoImage
                 \/ ContextOnHost(m[s].build, st.srcdirs)
       [] step.k \in {"pull", "stop_rm"} -> m # NoManifest
       [] OTHER -> TRUE

\* The host after a command that succeeded.  bid is the content of every
\* image pulled or built during the invocation.
HostAfter(st, step, bid) ==
  LET svcs == StepServices(st, step)
      m == st.manifest
      tagOf(s) == ExpectedTag(s, m[s])
  IN CASE step.k \in {"rsync", "extract"} ->
            [st EXCEPT !.srcdirs = @ \cup {step.a}]
       [] step.k = "upload_env" ->
            [st EXCEPT !.envdir = [@ EXCEPT ![step.a[1]] = step.c]]
       [] step.k = "upload_manifest" -> [st EXCEPT !.manifest = step.m]
       [] step.k = "write_local" ->
            [st EXCEPT !.localCompose = step.m, !.localEnv = step.e]
       [] step.k = "stop_rm" -> [st EXCEPT !.running = @ \ svcs]
       [] step.k = "build" ->
            [st EXCEPT !.images =
               [t \in Tags |->
                  IF \E s \in svcs : m[s].build # NoBuild /\ tagOf(s) = t
                  THEN bid ELSE @[t]]]
       [] step.k = "pull" ->
            [st EXCEPT !.images =
               [t \in Tags |->
                  IF \E s \in svcs : m[s].build = NoBuild /\ tagOf(s) = t
                  THEN bid ELSE @[t]]]
       [] step.k = "up" ->
            [st EXCEPT
               !.images =
                 [t \in Tags |->
                    IF \E s \in svcs :
                         /\ tagOf(s) = t
                         /\ \/ @[t] = NoImage
                            \/ step.c = 1 /\ m[s].build = NoBuild
                    THEN bid ELSE @[t]],
               !.running = IF step.all THEN svcs ELSE @ \cup svcs]
       [] OTHER -> st

\* Run the steps in order until a fatal one fails.  `tried` is the set of
\* the kinds of the steps that were reached.
RECURSIVE Exec(_, _, _, _, _)
Exec(st, script, F, bid, acc) ==
  IF script = <<>> THEN [st |-> st, log |-> acc, result |-> "ok", tried |-> {}]
  ELSE LET step == Head(script)
           ok == /\ step.can
                 /\ step.k \notin F
                 /\ step.local \/ HostAllows(st, step)
           logged == IF step.local THEN acc
                     ELSE Append(acc, Cmd(step.k, step.a, ok))
           rest == IF ok THEN Exec(HostAfter(st, step, bid), Tail(script), F, bid, logged)
                   ELSE Exec(st, Tail(script), F, bid, logged)
       IN IF ~ok /\ step.fatal
          THEN [st |-> st, log |-> logged, tried |-> {step.k},
                result |-> IF step.local THEN "validation_error" ELSE "error"]
          ELSE [rest EXCEPT !.tried = @ \cup {step.k}]

(* ---------------------------------------------------------------------- *)
(* Sync, SyncService, SyncComposeOnly (sync.go)                            *)
(* ---------------------------------------------------------------------- *)
\* sync.go:165-178, 474-487: the build context and the build file must exist.
SourceChecks ==
  <<Check("build_context", TRUE), Check("dockerfile", TRUE)>>

\* sync.go:254-301, 489-536: mkdir, rsync, and the tarball fallback when
\* rsync is not installed; any other rsync error is fatal.
TransferSteps(dir, rsync) ==
  <<Step("mkdir_svc", dir, TRUE)>> \o
  IF rsync THEN <<Step("rsync", dir, TRUE)>>
  ELSE <<May(Step("rsync", dir, FALSE), FALSE),
         Step("upload_tarball", dir, TRUE),
         Step("extract", dir, TRUE)>>

\* sync.go:96-111, 574-588: every file of the local env/ is uploaded; the
\* results of mkdir and of the uploads are not looked at.
EnvUploadSteps(env) ==
  IF env = NoEnv THEN <<>>
  ELSE LET files == SetToSeq({s \in Services : env[s] # 0})
       IN <<Step("mkdir_env", <<>>, FALSE)>> \o
          [i \in 1..Len(files) |-> UploadEnv(files[i], env[files[i]], FALSE)]

RECURSIVE UploadSources(_, _, _)
UploadSources(lm, todo, rsync) ==
  IF todo = <<>> THEN <<>>
  ELSE LET s == Head(todo)
       IN SourceChecks
          \o TransferSteps(<<ContextName(s, lm[s].build)>>, rsync)
          \o UploadSources(lm, Tail(todo), rsync)

\* The last phases if the project were started before it is built.
StartBeforeBuild(noCache) ==
  (IF noCache THEN <<Step("builder_prune", <<>>, FALSE)>> ELSE <<>>)
  \o <<PullAlways(Whole(Step("up", <<>>, TRUE))),
       Whole(Step("build", <<>>, TRUE)),
       Step("image_prune", <<>>, FALSE)>>

\* sync.go:602-627
BuildAndStart(noCache) ==
  (IF noCache THEN <<Step("builder_prune", <<>>, FALSE)>> ELSE <<>>)
  \o <<Whole(Step("build", <<>>, TRUE)),
       PullAlways(Whole(Step("up", <<>>, TRUE))),
       Step("image_prune", <<>>, FALSE)>>

\* Sync after the backup (sync.go:373-631).
SyncScript(st, lm, noCache, heave, rsync) ==
  <<Step("mkdir_proj", <<>>, TRUE), Check("manifest_file", lm # NoManifest)>>
  \o IF lm = NoManifest THEN <<>>
     ELSE UploadSources(lm, SetToSeq({s \in DOMAIN lm : IsServerBuild(lm[s])}),
                        rsync)
          \o <<WriteLocal(SyncTransform(lm), EnvWritten(st.localEnv, lm))>>
          \o EnvUploadSteps(EnvWritten(st.localEnv, lm))
          \o <<Upload(SyncTransform(lm), TRUE)>>
          \o IF heave THEN <<>> ELSE BuildAndStart(noCache)

\* The pull branch if a failed pull were tried a second time.
PullStepsRetried(svc, heave) ==
  IF heave THEN <<>>
  ELSE <<Step("stop_rm", <<svc>>, FALSE),
         Step("pull", <<svc>>, FALSE),
         Step("pull", <<svc>>, TRUE),
         Step("up", <<svc>>, TRUE),
         Step("image_prune", <<>>, FALSE)>>

\* sync.go:120-155
PullSteps(svc, heave) ==
  IF heave THEN <<>>
  ELSE <<Step("stop_rm", <<svc>>, FALSE),
         Step("pull", <<svc>>, TRUE),
         Step("up", <<svc>>, TRUE),
         Step("image_prune", <<>>, FALSE)>>

\* The build branch if the result of the build were not looked at.
BuildStepsUnchecked(svc, noCache) ==
  <<Step("stop_rm", <<svc>>, FALSE)>>
  \o (IF noCache THEN <<Step("builder_prune", <<>>, FALSE)>> ELSE <<>>)
  \o <<Step("build", <<svc>>, FALSE),
       Step("up", <<svc>>, TRUE),
       Step("image_prune", <<>>, FALSE)>>

\* sync.go:308-347
BuildSteps(svc, noCache) ==
  <<Step("stop_rm", <<svc>>, FALSE)>>
  \o (IF noCache THEN <<Step("builder_prune", <<>>, FALSE)>> ELSE <<>>)
  \o <<Step("build", <<svc>>, TRUE),
       Step("up", <<svc>>, TRUE),
       Step("image_prune", <<>>, FALSE)>>

\* sync.go:64
IsImageBased(def) == def.image # NoTag /\ def.build = NoBuild

\* SyncService after the backup (sync.go:42-347).
SyncServiceScript(st, lm, svc, noCache, heave, rsync) ==
  <<Check("manifest_file", lm # NoManifest),
    Check("service_exists", svc \in DOMAIN lm)>>
  \o IF lm = NoManifest \/ svc \notin DOMAIN lm THEN <<>>
     ELSE <<WriteLocal(ServiceTransform(lm), EnvWritten(st.localEnv, lm)),
            Step("mkdir_proj", <<>>, TRUE)>>
          \o EnvUploadSteps(EnvWritten(st.localEnv, lm))
          \o <<Upload(ServiceTransform(lm), TRUE)>>
          \o IF IsImageBased(lm[svc]) THEN PullSteps(svc, heave)
             ELSE IF IsServerBuild(lm[svc])
             THEN SourceChecks
                  \o TransferSteps(<<ContextName(svc, lm[svc].build)>>, rsync)
                  \o IF heave THEN <<>> ELSE BuildSteps(svc, noCache)
             ELSE BuildSteps(svc, noCache)

\* sync.go:692: the services for which the origin URL is asked for.
IsGitImages(def) == getGraftMode(def) = "git-images" /\ def.build # NoBuild

\* sync.go:685-717: a service labelled git-images that has a build
\* descriptor gets a registry image named after the repository and the
\* service in place of the descriptor, when the origin URL is there and
\* gives an owner and a name; it is left as it is otherwise.
ComposeTransform(m, url) ==
  [s \in DOMAIN m |->
     LET d == ProcessServiceEnvironment(ParseComposeFile(m)[s])
     IN IF IsGitImages(d) /\ url # NoRemote /\ OwnerRepo(url) # <<>>
        THEN [d EXCEPT !.image = GhcrImage(ToLower(OwnerRepo(url)), s),
                       !.build = NoBuild]
        ELSE d]

\* sync.go:743-764: every env_file of the generated docker-compose.yml.
ComposeEnvSteps(compose, env) ==
  IF compose = NoManifest THEN <<>>
  ELSE LET files == SetToSeq({s \in DOMAIN compose : compose[s].env_file})
       IN [i \in 1..(2 * Len(files)) |->
             IF i % 2 = 1 THEN Step("mkdir_env", <<>>, TRUE)
             ELSE May(UploadEnv(files[i \div 2], env[files[i \div 2]], TRUE),
                      env[files[i \div 2]] # 0)]

\* SyncComposeOnly after the backup (sync.go:667-793).
SyncComposeScript(st, lm, heave, doCompose, doEnv, url) ==
  LET generated == IF lm = NoManifest THEN NoManifest ELSE ComposeTransform(lm, url)
      compose == IF doCompose THEN generated ELSE st.localCompose
      env == IF doCompose /\ lm # NoManifest THEN EnvWritten(st.localEnv, lm) ELSE st.localEnv
  IN <<Step("mkdir_proj", <<>>, TRUE)>>
     \o (IF doCompose
         THEN <<Check("manifest_file", lm # NoManifest), WriteLocal(generated, env)>>
         ELSE <<>>)
     \o (IF doEnv
         THEN <<Check("generated_file", compose # NoManifest)>>
              \o ComposeEnvSteps(compose, env)
         ELSE <<>>)
     \o (IF doCompose THEN <<Upload(generated, TRUE)>> ELSE <<>>)
     \o (IF heave THEN <<>> ELSE <<Whole(Step("up", <<>>, TRUE))>>)

(* ---------------------------------------------------------------------- *)
(* The transfer of one build context (sync.go:254-301, 489-536)            *)
(* ---------------------------------------------------------------------- *)
\* A file is the list of the parts of its path below the build context.
SourceFiles == {<<"main.go">>, <<"old.go">>, <<"app.log">>,
                <<"node_modules", "x.js">>}

\* part_001:126-129: createTarball leaves out what lies under one of these.
SkippedDirs == {".git", "node_modules", ".next"}

\* createTarball (part_001:109-157): the files of the archive.
createTarball(local) ==
  {f \in local : \A i \in 1..(Len(f) - 1) : f[i] \notin SkippedDirs}

\* part_007:455-470: what rsync is told to exclude (node_modules, .next,
\* *.log); the directory has no .gitignore.
RsyncExcluded(f) ==
  \/ \E i \in 1..(Len(f) - 1) : f[i] \in {"node_modules", ".next"}
  \/ f[Len(f)] = "app.log"

\* RsyncDirectory (part_007:447-539): rsync -avz --delete with the
\* exclusions; an excluded file is neither sent nor deleted.
RsyncDirectory(local, remote) ==
  {f \in local : ~RsyncExcluded(f)} \cup {f \in remote : RsyncExcluded(f)}

\* extractCmd: SyncService runs `rm -rf <dir> && mkdir -p <dir> && tar -xzf
\* <tarball> -C <dir>` (sync.go:292-293), Sync runs `mkdir -p <dir> &&
\* tar -xzf <tarball> -C <dir>` (sync.go:527-528).
Extracted(op, before, archive) ==
  IF op = "SyncService" THEN archive ELSE before \cup archive

\* What a failed extractCmd may leave, by the command of the chain that
\* failed.
ExtractFailed(op, before, archive) ==
  IF op = "SyncService" THEN {before, {}, archive}
  ELSE {before, before \cup archive}

TransferKindsOf(rsync) ==
  IF rsync THEN {"mkdir_svc", "rsync"}
  ELSE {"mkdir_svc", "create_tarball", "upload_tarball", "extract"}

NoTransfer ==
  [n |-> 0, op |-> "none", files |-> {}, before |-> {}, local |-> {},
   rsync |-> TRUE, fail |-> "none", result |-> "ok"]

(* ---------------------------------------------------------------------- *)
(* Two invocations at once (sync.go:19-347, rollback.go:15-63)              *)
(* ---------------------------------------------------------------------- *)
\* Neither PerformBackup nor the sync functions take a lock, on the client
\* or on the host: each is a sequence of remote commands, and the commands
\* of two invocations on one project reach the host in any order.
Procs == {1, 2}

\* The commands of a SyncService of a server-built service that touch the
\* manifest, the env directory, the source, the image or the container, in
\* the order of the code: PerformBackup's copies and save (rollback.go:43-56),
\* then the uploads of the env files and of the manifest (sync.go:96-115),
\* the transfer of the source (sync.go:254-301), then stop, build and start
\* (sync.go:308-347).
RaceSteps ==
  <<"cp_manifest_backup", "cp_env_backup", "save_images",
    "upload_env", "upload_manifest", "rsync", "stop_rm", "build", "up">>
RaceDone == Len(RaceSteps) + 1

\* The commands whose failure ends the invocation with an error; the result
\* of the others is not looked at.
RaceChecked == {"rsync", "upload_manifest", "build", "up"}

\* Versions: 0 is what an earlier sync deployed, p is what invocation p
\* deploys; Unwritten is a part of a snapshot that no copy has written.
Unwritten == -1
Stopped == -1

RaceHost == [manifest |-> 0, env |-> 0, src |-> 0, image |-> 0, running |-> 0]
EmptyRaceSnapshot == [manifest |-> Unwritten, env |-> Unwritten, image |-> Unwritten]

\* What a snapshot holds of a host.
Snapshot(h) == [manifest |-> h.manifest, env |-> h.env, image |-> h.image]

RaceInit ==
  [started |-> FALSE, serial |-> FALSE, pc |-> [p \in Procs |-> 1],
   host |-> RaceHost, snap |-> [p \in Procs |-> EmptyRaceSnapshot],
   left |-> {Snapshot(RaceHost)}, failures |-> 0]

\* The host after command k of invocation p.
RaceHostAfter(h, p, k) ==
  CASE k = "rsync" -> [h EXCEPT !.src = p]
    [] k = "upload_env" -> [h EXCEPT !.env = p]
    [] k = "upload_manifest" -> [h EXCEPT !.manifest = p]
    [] k = "stop_rm" -> [h EXCEPT !.running = Stopped]
    [] k = "build" -> [h EXCEPT !.image = h.src]
    [] k = "up" -> [h EXCEPT !.running = h.image]
    [] OTHER -> h

\* The snapshot directory of an invocation after command k of its backup.
RaceSnapAfter(sn, h, k) ==
  CASE k = "cp_manifest_backup" -> [sn EXCEPT !.manifest = h.manifest]
    [] k = "cp_env_backup" -> [sn EXCEPT !.env = h.env]
    [] k = "save_images" -> [sn EXCEPT !.image = h.image]
    [] OTHER -> sn

(* ---------------------------------------------------------------------- *)
(* Initial states and actions                                              *)
(* ---------------------------------------------------------------------- *)
\* p.DeploymentMode values (part_005:205) the runs are tried with.
DeploymentModes == {"direct-serverbuild", "git-manual"}

EmptyHost ==
  [manifest |-> NoManifest, envdir |-> NoEnv, images |-> [t \in Tags |-> NoImage],
   running |-> {}, srcdirs |-> {}, localEnv |-> NoEnv, localCompose |-> NoManifest]

\* A project that was never synced, or one that a Sync deployed.
InitialHosts ==
  {EmptyHost} \cup
  {Exec(EmptyHost, SyncScript(EmptyHost, lm, FALSE, FALSE, TRUE),
        {}, 1, <<>>).st : lm \in LocalManifests}

\* What `last` records of an invocation.  mode, doCompose and doEnv are
\* SyncComposeOnly's p.DeploymentMode and flags.
Invocation(op, result, svc, ts, heave, lm, F, backup) ==
  [op |-> op, result |-> result, svc |-> svc, ts |-> ts, heave |-> heave,
   lm |-> lm, fails |-> F, backup |-> backup,
   mode |-> "", doCompose |-> FALSE, doEnv |-> FALSE, url |-> NoRemote]

Init ==
  /\ now = 1
  /\ pname \in ProjectNames
  /\ rollbackBackups \in 0..MaxRetention
  /\ registryRollback = rollbackBackups
  /\ \E h \in InitialHosts :
       /\ manifest = h.manifest
       /\ envdir = h.envdir
       /\ images = h.images
       /\ running = h.running
       /\ srcdirs = h.srcdirs
       /\ localEnv = h.localEnv
       /\ localCompose = h.localCompose
  /\ snapshots = <<>>
  /\ ops = 0
  /\ backups = 0
  /\ faults = 0
  /\ last = Invocation("init", "ok", "", 0, FALSE, NoManifest, {}, "none")
  /\ log = <<>>
  /\ transform = NoTransform
  /\ projectDirs = {}
  /\ serviceDir = NoTransfer
  /\ resolved = [done |-> FALSE]
  /\ gitExport = [done |-> FALSE]
  /\ racing = RaceInit
  /\ contextDirs = [done |-> FALSE]
  /\ mergedRuns = [done |-> FALSE]

\* The remote clock advances by a second.
Tick ==
  /\ now < MaxTime
  /\ now' = now + 1
  /\ UNCHANGED <<pname, rollbackBackups, registryRollback,
                 manifest, envdir, images, running, srcdirs, snapshots,
                 localEnv, localCompose, ops, backups, faults, last, log,
                 transform, projectDirs, serviceDir, resolved,
                 gitExport,
                 racing,
                 contextDirs,
                 mergedRuns>>

HostBecomes(st) ==
  /\ manifest' = st.manifest
  /\ envdir' = st.envdir
  /\ images' = st.images
  /\ running' = st.running
  /\ srcdirs' = st.srcdirs
  /\ localEnv' = st.localEnv
  /\ localCompose' = st.localCompose

\* F are the commands that fail in the invocation, backed whether its
\* backup found a manifest to back up.
Invoked(F, backed) ==
  /\ ops' = ops + 1
  /\ faults' = faults + Cardinality(F)
  /\ backups' = IF backed THEN backups + 1 ELSE backups
  /\ UNCHANGED <<now, pname, transform, projectDirs, serviceDir, resolved,
                 gitExport,
                 racing,
                 contextDirs,
                 mergedRuns>>

\* PerformBackup called on its own.
PerformBackup ==
  /\ ops < MaxOps
  /\ \E F \in BackupFailSets(pname, rollbackBackups) :
       /\ Invoked(F, BackupResult(pname, rollbackBackups, F) # "skipped")
       /\ snapshots' \in {BackupSnapshots(pname, rollbackBackups, F, order) :
                            order \in BackupOrders(pname, rollbackBackups, F)}
       /\ log' = BackupLog(pname, rollbackBackups, F)
       /\ last' = Invocation("Backup", BackupResult(pname, rollbackBackups, F), "",
                             now, FALSE, NoManifest, F,
                             BackupResult(pname, rollbackBackups, F))
       /\ UNCHANGED <<rollbackBackups, registryRollback, manifest, envdir, images,
                      running, srcdirs, localEnv, localCompose>>

\* The snapshot identifiers a rollback is tried with: the existing ones
\* and one that does not exist.
RestoreChoices == DOMAIN snapshots \cup {MaxTime + 1}

\* RunRollback (part_011:17-84) hands RestoreRollback the project name of
\* the metadata, which always ends in the environment name.
RestoreRollback ==
  /\ ops < MaxOps
  /\ \E ts \in RestoreChoices, F \in FailSets(RestoreKinds) :
       LET m == RestoredManifest(ts, F)
           ok == RestoreUpOk(ts, F)
       IN /\ Invoked(F, FALSE)
          /\ manifest' = m
          /\ envdir' = RestoredEnv(ts, F)
          /\ images' \in {IF ok THEN UpBuilds(m, DOMAIN m, RestoreAfterLoad(ts, F), bid)
                           ELSE RestoreAfterLoad(ts, F) : bid \in ImageIds}
          /\ running' = IF ok THEN DOMAIN m
                        ELSE IF RestoreDownOk(ts, F) THEN {} ELSE running
          /\ log' = RestoreLog(ts, F)
          /\ last' = Invocation("Restore", IF ok THEN "ok" ELSE "error", "", ts,
                                FALSE, NoManifest, F, "none")
          /\ UNCHANGED <<rollbackBackups, registryRollback, srcdirs, snapshots,
                         localEnv, localCompose>>

RestoreServiceRollback ==
  /\ ops < MaxOps
  /\ \E ts \in RestoreChoices, svc \in Services,
        F \in FailSets(RestoreServiceKinds) :
       LET m == RestoreServiceManifest(ts, svc, F)
           ok == RestoreServiceUpOk(ts, svc, F)
           loaded == RestoreServiceLoaded(ts, svc, F)
       IN /\ Invoked(F, FALSE)
          /\ manifest' = m
          /\ envdir' = RestoreServiceEnv(ts, svc, F)
          /\ images' \in {IF ok THEN UpBuilds(m, {svc}, loaded, bid) ELSE loaded :
                           bid \in ImageIds}
          /\ running' = IF ok THEN RestoreServiceStopped(ts, svc, F) \cup {svc}
                        ELSE RestoreServiceStopped(ts, svc, F)
          /\ log' = RestoreServiceLog(ts, svc, F)
          /\ last' = Invocation("RestoreService", IF ok THEN "ok" ELSE "error",
                                svc, ts, FALSE, NoManifest, F, "none")
          /\ UNCHANGED <<rollbackBackups, registryRollback, srcdirs, snapshots,
                         localEnv, localCompose>>

LocalFiles == LocalManifests \cup {ManifestGitImages, NoManifest}

\* The steps left to run if an error of PerformBackup ended the sync.
AbortAfterBackup(result, script) == IF result = "error" THEN <<>> ELSE script

\* sync.go:23-25, 354-356, 659-661: an error of PerformBackup is printed as
\* a warning and the function goes on.
AfterBackup(result, script) == script

\* One sync invocation: the backup (when the function makes one), then the
\* function's own steps.  `call` holds the arguments recorded in `last`.
Synced(call, backs, script) ==
  \E FB \in (IF backs THEN BackupFailSets(pname, rollbackBackups) ELSE {{}}) :
  \E FS \in UpTo(Exec(Host, AfterBackup(IF backs
                                         THEN BackupResult(pname, rollbackBackups, FB)
                                         ELSE "none", script),
                       {}, 1, <<>>).tried \cap SyncKinds,
                  MaxFailures - Cardinality(FB)) :
  \E r \in {Exec(Host, AfterBackup(IF backs
                                     THEN BackupResult(pname, rollbackBackups, FB)
                                     ELSE "none", script),
                   FS, bid, <<>>) : bid \in ImageIds} :
    LET result == IF backs THEN BackupResult(pname, rollbackBackups, FB) ELSE "none"
    IN /\ Invoked(FB \cup FS, result \in {"ok", "error"})
       /\ snapshots' \in (IF backs
                          THEN {BackupSnapshots(pname, rollbackBackups, FB, order) :
                                  order \in BackupOrders(pname, rollbackBackups, FB)}
                          ELSE {snapshots})
       /\ HostBecomes(r.st)
       /\ log' = (IF backs THEN BackupLog(pname, rollbackBackups, FB) ELSE <<>>)
                 \o r.log
       /\ last' = [call EXCEPT !.result = r.result, !.ts = now,
                               !.fails = FB \cup FS, !.backup = result]
       /\ UNCHANGED <<rollbackBackups, registryRollback>>

Sync ==
  /\ ops < MaxSyncs
  /\ \E lm \in LocalFiles, heave \in BOOLEAN :
     \E script \in {SyncScript(Host, lm, noCache, heave, rsync) :
                      noCache \in BOOLEAN, rsync \in BOOLEAN} :
       Synced(Invocation("Sync", "", "", 0, heave, lm, {}, ""), TRUE, script)

SyncService ==
  /\ ops < MaxSyncs
  /\ \E lm \in LocalFiles, svc \in Services, heave \in BOOLEAN :
     \E script \in {SyncServiceScript(Host, lm, svc, noCache, heave, rsync) :
                      noCache \in BOOLEAN, rsync \in BOOLEAN} :
       Synced(Invocation("SyncService", "", svc, 0, heave, lm, {}, ""), TRUE, script)

\* sync.go:658: strings.HasPrefix(p.DeploymentMode, "git")
IsGitMode(mode) == mode \in {"git-images", "git-repo-serverbuild", "git-manual"}

\* sync.go:635-637 rejects a call with neither flag; every other call runs.
SyncComposeOnly ==
  /\ ops < MaxSyncs
  /\ \E lm \in LocalFiles, heave \in BOOLEAN, mode \in DeploymentModes,
        doCompose \in BOOLEAN, doEnv \in BOOLEAN :
     \E url \in (IF doCompose /\ lm # NoManifest
                     /\ \E s \in DOMAIN lm : IsGitImages(lm[s])
                  THEN RemoteURLs ELSE {NoRemote}) :
       /\ doCompose \/ doEnv
       /\ Synced([Invocation("SyncComposeOnly", "", "", 0, heave, lm, {}, "")
                    EXCEPT !.mode = mode, !.doCompose = doCompose, !.doEnv = doEnv,
                           !.url = url],
                 ~IsGitMode(mode),
                 SyncComposeScript(Host, lm, heave, doCompose, doEnv, url))

ConfigKinds == {"download_registry", "upload_registry", "restart_hook"}

\* config.SaveProjectMetadata (part_005:230-237): once project.json names
\* the project, the saved entry takes the project-level rollback_backups,
\* whatever the caller put in meta.
SavedRollbackBackups(stored, requested) == stored

\* RunRollbackConfig (part_011:86-180) with the answer "y" and n versions,
\* or the answer "n" (n = 0).
RunRollbackConfig ==
  /\ ops < MaxOps
  /\ \E n \in 0..MaxRetention, F \in FailSets(ConfigKinds) :
    LET uploaded == "upload_registry" \notin F
    IN /\ Invoked(F, FALSE)
       /\ registryRollback' = IF uploaded THEN n ELSE registryRollback
       /\ rollbackBackups' = IF uploaded THEN SavedRollbackBackups(rollbackBackups, n)
                             ELSE rollbackBackups
       /\ log' = <<Cmd("download_registry", <<>>, "download_registry" \notin F),
                   Cmd("upload_registry", <<>>, uploaded)>>
                 \o IF uploaded
                    THEN <<Cmd("restart_hook", <<>>, "restart_hook" \notin F)>>
                    ELSE <<>>
       /\ last' = Invocation("RollbackConfig", IF uploaded THEN "ok" ELSE "error",
                             "", n, FALSE, NoManifest, F, "none")
       /\ UNCHANGED <<manifest, envdir, images, running, srcdirs, snapshots,
                      localEnv, localCompose>>

\* Backups, rollbacks and the retention setting of a deployed project.
NextRollback ==
  \/ Tick
  \/ PerformBackup
  \/ RestoreRollback
  \/ RestoreServiceRollback
  \/ RunRollbackConfig

SpecRollback == Init /\ [][NextRollback]_vars

\* The sync functions, each run from every initial state.
NextSync ==
  \/ Tick
  \/ Sync
  \/ SyncService
  \/ SyncComposeOnly

SpecSync == Init /\ [][NextSync]_vars

\* A manifest-only SyncComposeOnly in which no command fails, then backups.
ManifestOnlySync ==
  /\ SyncComposeOnly
  /\ last'.doCompose /\ ~last'.doEnv /\ last'.fails = {}

NextRedeploy ==
  \/ Tick
  \/ ManifestOnlySync
  \/ PerformBackup

SpecRedeploy == Init /\ [][NextRedeploy]_vars

\* sync.go:73, 546, 689: the call is a statement of its own,
\* `ProcessServiceEnvironment(sName, &sPtr, secrets)`; what it returns is
\* assigned to nothing, and the sync goes on to marshal and upload the
\* manifest and to build and start, whatever the call returned.
AfterTransform(err) ==
  [result |-> "ok", manifestUploaded |-> TRUE, started |-> TRUE]

\* The transform of one service of the manifest (sync.go:543-558): the
\* caller drops what ProcessServiceEnvironment returns and puts the service,
\* as the call left it, into the manifest that is marshalled and uploaded.
TransformService ==
  /\ ~transform.done
  /\ \E envname \in Environments, environment \in 0..1,
        files \in SUBSET EnvFileNames, writeOk \in BOOLEAN :
       /\ Cardinality(files) <= MaxEnvFiles
       /\ \E unread \in SUBSET files :
            LET service == [environment |-> environment, env_file |-> files]
                r == ProcessServiceEnvironmentFiles(service, envname, unread, writeOk)
            IN transform' = [done |-> TRUE, envname |-> envname, service |-> service,
                             unread |-> unread, writeOk |-> writeOk,
                             merged |-> IF r.written
                                        THEN MergedFiles(service, envname, unread)
                                        ELSE {},
                             uploaded |-> r.service,
                             err |-> r.err,
                             remoteEnv |-> EnvUploaded(r.written, envname),
                             after |-> AfterTransform(r.err)]
  /\ UNCHANGED <<now, pname, rollbackBackups, registryRollback, manifest, envdir,
                 images, running, srcdirs, snapshots, localEnv, localCompose,
                 ops, backups, faults, last, log, projectDirs, serviceDir,
                 resolved,
                 gitExport,
                 racing,
                 contextDirs,
                 mergedRuns>>

NextTransform ==
  \/ Tick
  \/ TransformService

SpecTransform == Init /\ [][NextTransform]_vars

\* The names and environments of the projects deployed to one server.
LocalNames == {<<"app">>, <<"app", "prod">>, <<"app", "staging">>, <<"api">>}
EnvNames == {"prod", "staging"}

\* sync.go:362: /opt/graft/projects/<remoteProjName>
RemoteDir(name, envname) ==
  <<"/opt/graft/projects">> \o RemoteProjName(name, envname)

\* The head of Sync for the project p.Name in the environment envname
\* (sync.go:358-375): the remote directory is computed and made.
MkdirRemoteDir ==
  /\ \E name \in LocalNames, envname \in EnvNames :
       projectDirs' = projectDirs \cup
                        {[name |-> name, envname |-> envname,
                          dir |-> RemoteDir(name, envname)]}
  /\ UNCHANGED <<now, pname, rollbackBackups, registryRollback, manifest, envdir,
                 images, running, srcdirs, snapshots, localEnv, localCompose,
                 ops, backups, faults, last, log, transform, serviceDir,
                 resolved,
                 gitExport,
                 racing,
                 contextDirs,
                 mergedRuns>>

\* The transfer of the build context of one server-built service by Sync
\* or SyncService (sync.go:254-301, 489-536): mkdir, rsync, and when rsync
\* is not installed the tarball, its upload and its extraction.  `fail` is
\* the step that fails.
TransferSource ==
  /\ serviceDir.n < MaxTransfers
  /\ \E op \in {"Sync", "SyncService"}, local \in SUBSET SourceFiles,
        rsync \in BOOLEAN :
     \E fail \in {"none"} \cup TransferKindsOf(rsync) :
     \E files \in (CASE fail = "none" /\ rsync ->
                        {RsyncDirectory(local, serviceDir.files)}
                    [] fail = "none" /\ ~rsync ->
                        {Extracted(op, serviceDir.files, createTarball(local))}
                    [] fail = "rsync" ->
                        {serviceDir.files, RsyncDirectory(local, serviceDir.files)}
                    [] fail = "extract" ->
                        ExtractFailed(op, serviceDir.files, createTarball(local))
                    [] OTHER -> {serviceDir.files}) :
       serviceDir' = [n |-> serviceDir.n + 1, op |-> op, files |-> files,
                      before |-> serviceDir.files, local |-> local,
                      rsync |-> rsync, fail |-> fail,
                      result |-> IF fail = "none" THEN "ok" ELSE "error"]
  /\ UNCHANGED <<now, pname, rollbackBackups, registryRollback, manifest, envdir,
                 images, running, srcdirs, snapshots, localEnv, localCompose,
                 ops, backups, faults, last, log, transform, projectDirs,
                 resolved,
                 gitExport,
                 racing,
                 contextDirs,
                 mergedRuns>>

NextTransfer ==
  \/ Tick
  \/ TransferSource

SpecTransfer == Init /\ [][NextTransfer]_vars

\* One pass of the load loop (rollback.go:97-112) over an archive of the
\* snapshot, for a restored manifest m whose tags `docker compose config
\* --images` lists in some order.  An archive of a snapshot made by the
\* earlier PerformBackup (part_002) has no sidecar.
ResolveArchive ==
  /\ ~resolved.done
  /\ \E m \in LocalManifests, sidecar \in {NoTag, TagColon},
        fname \in {Sanitize(t) : t \in Tags} :
     \E order \in Perms(ImageTags(m)) :
       resolved' = [done |-> TRUE, fname |-> fname, sidecar |-> sidecar,
                    order |-> order,
                    tag |-> ResolveTagIn(fname, sidecar, order)]
  /\ UNCHANGED <<now, pname, rollbackBackups, registryRollback, manifest, envdir,
                 images, running, srcdirs, snapshots, localEnv, localCompose,
                 ops, backups, faults, last, log, transform, projectDirs,
                 serviceDir,
                 gitExport,
                 racing,
                 contextDirs,
                 mergedRuns>>

(* ---------------------------------------------------------------------- *)
(* Syncs with --git (sync.go:184-252, 393-455)                              *)
(* ---------------------------------------------------------------------- *)
\* A commit is the list of the characters of its hash; git.GetLatestCommit
\* gives hashes of full length, --commit may give an abbreviation.
HashLen == 7
Hash(d) == [i \in 1..HashLen |-> d]
Abbrev == <<1, 1, 1, 1>>
NoCommit == <<>>
Branches == {"main", "dev"}
NoBranch == ""

\* git.GetLatestCommit(".", branch)
GetLatestCommit(branch) == IF branch = "main" THEN Hash(1) ELSE Hash(2)

\* The files of a commit, by their paths from the root of the repository:
\* main has Dockerfiles, dev has none yet.
CommitTree(commit) ==
  IF commit[1] = 1
  THEN {<<"Dockerfile">>, <<"main.go">>,
        <<"backend", "Dockerfile">>, <<"backend", "main.go">>}
  ELSE {<<"main.go">>, <<"backend", "main.go">>}

\* The working directory: the files every commit has, with or without the
\* Dockerfiles, with or without a file that was never committed.
WorkDirs ==
  {{<<"main.go">>, <<"backend", "main.go">>} \cup d \cup n :
     d \in {{}, {<<"Dockerfile">>, <<"backend", "Dockerfile">>}},
     n \in {{}, {<<"new.go">>, <<"backend", "new.go">>}}}

\* Build contexts: the root of the repository, or ./backend.
Contexts == {<<".">>, <<".", "backend">>}

\* The files below a context directory, by their paths from it.
Below(files, ctx) ==
  IF ctx = <<".">> THEN files
  ELSE {Tail(f) : f \in {g \in files : Len(g) > 1 /\ g[1] = ctx[Len(ctx)]}}

\* sync.go:190-212, 399-421: the branch is --branch, else the branch of the
\* project metadata, else the current branch; the commit is --commit, else
\* the latest commit of that branch.
ResolveBranch(gitBranch, metaBranch, current) ==
  IF gitBranch # NoBranch THEN gitBranch
  ELSE IF metaBranch # NoBranch THEN metaBranch
  ELSE current

ResolveCommit(gitBranch, gitCommit, metaBranch, current) ==
  IF gitCommit # NoCommit THEN gitCommit
  ELSE GetLatestCommit(ResolveBranch(gitBranch, metaBranch, current))

NoGitRun ==
  [result |-> "none", commit |-> NoCommit, files |-> {}, dir |-> "", context |-> ""]

\* sync.go:214, 423: commit[:7] panics on a shorter commit.
GitExported(commit, run) ==
  IF Len(commit) < HashLen THEN [NoGitRun EXCEPT !.result = "panic", !.commit = commit]
  ELSE run

\* SyncService with --git (sync.go:157-270): the context and the Dockerfile
\* are looked for in the working directory (165-178), then the commit is
\* resolved and exported, filtered to the context (184-249), and the
\* exported context is sent to <remoteDir>/<contextName> (254-270).
SyncServiceGit(s, ctx, wd, commit) ==
  IF <<"Dockerfile">> \notin Below(wd, ctx)
  THEN [NoGitRun EXCEPT !.result = "Dockerfile not found"]
  ELSE GitExported(commit,
         [result |-> "ok", commit |-> commit,
          files |-> RsyncDirectory(Below(CommitTree(commit), ctx), {}),
          dir |-> ContextName(s, ctx), context |-> ContextName(s, ctx)])

\* Sync with --git (sync.go:393-505, 543-558): the commit is resolved and
\* exported whole (399-452); the context is looked for below the extraction
\* directory (470-487) and sent to <remoteDir>/<base of that path> (490-505);
\* the manifest gets ./<base of the context as written> (551-555).
SyncGit(s, ctx, wd, commit) ==
  GitExported(commit,
    IF <<"Dockerfile">> \notin Below(CommitTree(commit), ctx)
    THEN [NoGitRun EXCEPT !.result = "Dockerfile not found", !.commit = commit]
    ELSE [result |-> "ok", commit |-> commit,
          files |-> RsyncDirectory(Below(CommitTree(commit), ctx), {}),
          dir |-> IF ctx = <<".">> THEN "extracted" ELSE ctx[Len(ctx)],
          context |-> ContextName(s, ctx)])

GitRun(op, s, ctx, wd, commit) ==
  IF op = "Sync" THEN SyncGit(s, ctx, wd, commit) ELSE SyncServiceGit(s, ctx, wd, commit)

\* Two syncs with --git of the same service, with the same flags, metadata,
\* branch and commits, from two working directories.
GitSync ==
  /\ ~gitExport.done
  /\ \E op \in {"Sync", "SyncService"}, ctx \in Contexts,
        gitBranch \in {NoBranch, "main"}, metaBranch \in {NoBranch, "dev"},
        current \in Branches, gitCommit \in {NoCommit, Hash(1), Hash(2), Abbrev},
        wdA \in WorkDirs, wdB \in WorkDirs :
       LET commit == ResolveCommit(gitBranch, gitCommit, metaBranch, current)
       IN gitExport' =
            [done |-> TRUE, op |-> op, ctx |-> ctx, gitBranch |-> gitBranch,
             gitCommit |-> gitCommit, metaBranch |-> metaBranch,
             current |-> current, wdA |-> wdA, wdB |-> wdB,
             a |-> GitRun(op, "web", ctx, wdA, commit),
             b |-> GitRun(op, "web", ctx, wdB, commit)]
  /\ UNCHANGED <<now, pname, rollbackBackups, registryRollback, manifest, envdir,
                 images, running, srcdirs, snapshots, localEnv, localCompose,
                 ops, backups, faults, last, log, transform, projectDirs,
                 serviceDir, resolved,
                 racing,
                 contextDirs,
                 mergedRuns>>

NextGit ==
  \/ Tick
  \/ GitSync

SpecGit == Init /\ [][NextGit]_vars

\* Whether the two invocations are run one after the other is chosen once.
RaceStart ==
  /\ ~racing.started
  /\ \E serial \in BOOLEAN :
       racing' = [racing EXCEPT !.started = TRUE, !.serial = serial]
  /\ UNCHANGED <<now, pname, rollbackBackups, registryRollback, manifest, envdir,
                 images, running, srcdirs, snapshots, localEnv, localCompose,
                 ops, backups, faults, last, log, transform, projectDirs,
                 serviceDir, resolved, gitExport,
                 contextDirs,
                 mergedRuns>>

\* Invocation p sends its next command; the command may fail.
RaceStep(p) ==
  /\ racing.started
  /\ racing.pc[p] < RaceDone
  /\ racing.serial => \A q \in Procs \ {p} : racing.pc[q] \in {1, RaceDone}
  /\ \E ok \in {TRUE} \cup {b \in {FALSE} : racing.failures < MaxFailures} :
       LET k == RaceSteps[racing.pc[p]]
           h == IF ok THEN RaceHostAfter(racing.host, p, k) ELSE racing.host
           sn == IF ok THEN RaceSnapAfter(racing.snap[p], racing.host, k)
                 ELSE racing.snap[p]
           next == IF ~ok /\ k \in RaceChecked THEN RaceDone ELSE racing.pc[p] + 1
       IN racing' =
            [racing EXCEPT !.pc[p] = next, !.host = h, !.snap[p] = sn,
                           !.failures = IF ok THEN @ ELSE @ + 1,
                           !.left = IF next = RaceDone THEN @ \cup {Snapshot(h)}
                                    ELSE @]
  /\ UNCHANGED <<now, pname, rollbackBackups, registryRollback, manifest, envdir,
                 images, running, srcdirs, snapshots, localEnv, localCompose,
                 ops, backups, faults, last, log, transform, projectDirs,
                 serviceDir, resolved, gitExport,
                 contextDirs,
                 mergedRuns>>

RaceFirst == RaceStep(1)
RaceSecond == RaceStep(2)

NextConcurrent ==
  \/ RaceStart
  \/ RaceFirst
  \/ RaceSecond

SpecConcurrent == Init /\ [][NextConcurrent]_vars

(* ---------------------------------------------------------------------- *)
(* The service directories of one Sync (sync.go:457-538)                    *)
(* ---------------------------------------------------------------------- *)
\* The build contexts the two services are tried with, and the files of
\* each in the working directory.
ServiceContexts == {<<".">>, <<"api">>, <<"web", "src">>, <<"api", "src">>}
LocalSource(ctx) ==
  CASE ctx = <<"web", "src">> -> {<<"web.go">>}
    [] ctx = <<"api", "src">> -> {<<"api.go">>}
    [] ctx = <<"api">> -> {<<"Dockerfile">>, <<"src", "api.go">>}
    [] OTHER -> {<<"graft-compose.yml">>, <<"api", "Dockerfile">>,
                 <<"api", "src", "api.go">>, <<"web", "src", "web.go">>}

\* The names a remote service directory can have.
ServiceDirNames == {ContextName(s, c) : s \in Services, c \in ServiceContexts}

\* sync.go:458-537: the loop over the services, in the order the map gives
\* them: each server-build service is sent to <remoteDir>/<contextName>,
\* by rsync or, where rsync is not installed, as a tarball that is
\* extracted over the directory.
RECURSIVE SendSources(_, _, _, _)
SendSources(dirs, ctx, todo, rsync) ==
  IF todo = <<>> THEN dirs
  ELSE LET s == Head(todo)
           d == ContextName(s, ctx[s])
           files == IF rsync THEN RsyncDirectory(LocalSource(ctx[s]), dirs[d])
                    ELSE Extracted("Sync", dirs[d], createTarball(LocalSource(ctx[s])))
       IN SendSources([dirs EXCEPT ![d] = files], ctx, Tail(todo), rsync)

\* One Sync of a project with two server-build services.
SyncSources ==
  /\ ~contextDirs.done
  /\ \E ctx \in [Services -> ServiceContexts], order \in Perms(Services),
        rsync \in BOOLEAN :
       contextDirs' =
         [done |-> TRUE, ctx |-> ctx, order |-> order, rsync |-> rsync,
          dirs |-> SendSources([d \in ServiceDirNames |-> {}], ctx, order, rsync)]
  /\ UNCHANGED <<now, pname, rollbackBackups, registryRollback, manifest, envdir,
                 images, running, srcdirs, snapshots, localEnv, localCompose,
                 ops, backups, faults, last, log, transform, projectDirs,
                 serviceDir, resolved, gitExport, racing,
                 mergedRuns>>

NextContextDirs ==
  \/ Tick
  \/ SyncSources

SpecContextDirs == Init /\ [][NextContextDirs]_vars

(* ---------------------------------------------------------------------- *)
(* The merged env file, line by line (utils.go:91-104, 154-159)             *)
(* ---------------------------------------------------------------------- *)
\* A value is a list of pieces; a piece is literal text or the placeholder
\* ${KEY} of a secret.
SecretKeys == {"A", "B"}
Placeholder(key) == IF key = "A" THEN "${A}" ELSE "${B}"

\* The secret stores the transform is tried with: plain values, and a
\* value that holds the placeholder of the other secret.
SecretStores ==
  {[k \in SecretKeys |-> IF k = "A" THEN <<"1">> ELSE <<"2">>],
   [k \in SecretKeys |-> IF k = "A" THEN <<"${B}">> ELSE <<"2">>]}

\* service.Environment in its map form: the variables and their values.
EnvKeys == {"X", "Y"}
EnvMap == [k \in EnvKeys |-> IF k = "X" THEN <<"${A}">> ELSE <<"${B}">>]

\* utils.go:93-97: one line KEY=value per entry, in the order the map gives
\* the entries; utils.go:98-103: the entries of a list in the order of the
\* list.
EnvLines(form, order) ==
  IF form = "map" THEN [i \in DOMAIN order |-> <<order[i], "=">> \o EnvMap[order[i]]]
  ELSE <<<<"X", "=">> \o EnvMap["X"], <<"Y", "=">> \o EnvMap["Y"]>>

\* strings.ReplaceAll(line, "${key}", value)
RECURSIVE ReplaceAll(_, _, _)
ReplaceAll(line, key, value) ==
  IF line = <<>> THEN <<>>
  ELSE (IF Head(line) = Placeholder(key) THEN value ELSE <<Head(line)>>)
       \o ReplaceAll(Tail(line), key, value)

\* utils.go:155-158: for each line, one ReplaceAll per secret, in the order
\* the map gives the secrets.
RECURSIVE ResolveSecrets(_, _, _)
ResolveSecrets(line, secrets, order) ==
  IF order = <<>> THEN line
  ELSE ResolveSecrets(ReplaceAll(line, Head(order), secrets[Head(order)]),
                      secrets, Tail(order))

\* The lines of the merged file (utils.go:170: joined with "\n").  The
\* order of the secrets is taken anew for every line.
MergedLines(form, secrets, envOrder, secOrders) ==
  LET lines == EnvLines(form, envOrder)
  IN [i \in DOMAIN lines |-> ResolveSecrets(lines[i], secrets, secOrders[i])]

\* Two runs of the transform on the same service, environment block and
\* secret store.
MergeTwice ==
  /\ ~mergedRuns.done
  /\ \E form \in {"map", "list"}, secrets \in SecretStores,
        envA \in Perms(EnvKeys), envB \in Perms(EnvKeys),
        secA \in [1..2 -> Perms(SecretKeys)], secB \in [1..2 -> Perms(SecretKeys)] :
       mergedRuns' =
         [done |-> TRUE, form |-> form, secrets |-> secrets,
          a |-> MergedLines(form, secrets, envA, secA),
          b |-> MergedLines(form, secrets, envB, secB)]
  /\ UNCHANGED <<now, pname, rollbackBackups, registryRollback, manifest, envdir,
                 images, running, srcdirs, snapshots, localEnv, localCompose,
                 ops, backups, faults, last, log, transform, projectDirs,
                 serviceDir, resolved, gitExport, racing, contextDirs>>

NextMerged ==
  \/ Tick
  \/ MergeTwice

SpecMerged == Init /\ [][NextMerged]_vars

NextResolve ==
  \/ Tick
  \/ ResolveArchive

SpecResolve == Init /\ [][NextResolve]_vars

NextRemoteDir ==
  \/ Tick
  \/ MkdirRemoteDir

SpecRemoteDir == Init /\ [][NextRemoteDir]_vars

\* A sync in which no command fails, then rollbacks of single services.
CleanSync ==
  /\ Sync \/ SyncService \/ SyncComposeOnly
  /\ last'.fails = {}

NextServiceRollback ==
  \/ Tick
  \/ CleanSync
  \/ RestoreServiceRollback

SpecServiceRollback == Init /\ [][NextServiceRollback]_vars

(* ---------------------------------------------------------------------- *)
(* Properties                                                              *)
(* ---------------------------------------------------------------------- *)
SyncOps == {"Sync", "SyncService", "SyncComposeOnly"}

\* The commands and transfers that change nothing on the host.
ReadOnlyKinds == {"ls_manifest", "date", "config_images",
                  "download_backup_manifest", "download_manifest",
                  "download_registry"}

\* The positions of `l` that hold a state-changing command or transfer.
Mutations(l) == {i \in DOMAIN l : l[i].k \notin ReadOnlyKinds}

\* C1: a sync run that finds no local manifest, and a SyncService run whose
\* service is not in the manifest, return a validation error, and no
\* state-changing remote command or transfer has been issued by then.
C1_ValidationBeforeRemoteChange ==
  LET missing == /\ last.lm = NoManifest
                 /\ \/ last.op \in {"Sync", "SyncService"}
                    \/ last.op = "SyncComposeOnly" /\ last.doCompose
      unknown == /\ last.op = "SyncService"
                 /\ last.lm # NoManifest
                 /\ last.svc \notin DOMAIN last.lm
  IN (last.fails = {} /\ (missing \/ unknown))
       => (last.result = "validation_error" /\ Mutations(log) = {})

\* C2: a Sync or SyncService run that finds the build context or the build
\* file of a server-build service missing returns a validation error, and no
\* state-changing remote command or transfer has been issued by then.
C2_SourceCheckedBeforeRemoteChange ==
  (/\ last.op \in {"Sync", "SyncService"}
   /\ last.fails # {}
   /\ last.fails \subseteq {"build_context", "dockerfile"})
    => (last.result = "validation_error" /\ Mutations(log) = {})

\* C3: Restore and RestoreService of a snapshot identifier that has no
\* snapshot directory fail and leave the remote manifest, the env directory,
\* the running services and the stored images as they were.
C3_AbsentSnapshotChangesNothing ==
  [][(/\ ops' = ops + 1
      /\ last'.op \in {"Restore", "RestoreService"}
      /\ last'.ts \notin DOMAIN snapshots
      /\ last'.fails = {})
       => (/\ last'.result = "error"
           /\ manifest' = manifest
           /\ envdir' = envdir
           /\ running' = running
           /\ images' = images)]_vars

\* C4: RestoreService of a service that the chosen snapshot's manifest does
\* not hold returns an error; it uploads no manifest, restores no env file,
\* stops no container and loads no archive, and the host is as it was.
C4_AbsentServiceChangesNothing ==
  [][(/\ ops' = ops + 1
      /\ last'.op = "RestoreService"
      /\ last'.ts \in DOMAIN snapshots
      /\ ~ServiceInBackup(last'.ts, last'.svc))
       => (/\ last'.result = "error"
           /\ Mutations(log') = {}
           /\ manifest' = manifest
           /\ envdir' = envdir
           /\ running' = running
           /\ images' = images
           /\ snapshots' = snapshots)]_vars

\* A RestoreService run, with no failing command, of a service that is
\* missing from the manifest of an existing snapshot.
C4_Witness ==
  /\ last.op = "RestoreService"
  /\ last.fails = {}
  /\ last.ts \in DOMAIN snapshots
  /\ snapshots[last.ts].manifest # NoManifest
  /\ last.svc \notin DOMAIN snapshots[last.ts].manifest
  /\ last.svc \notin DOMAIN manifest
  /\ last.result = "error"
  /\ log = <<Cmd("download_backup_manifest", <<>>, TRUE)>>

\* C5: a heave run of Sync, SyncService or SyncComposeOnly issues no stop,
\* remove, cache-purge, build, pull, start or prune command.
C5_HeaveOnlyUploads ==
  (last.op \in SyncOps /\ last.heave)
    => \A i \in DOMAIN log :
         log[i].k \notin {"stop_rm", "builder_prune", "build", "pull", "up",
                          "image_prune"}

\* C6: on a deployed project, Backup and then Restore of the snapshot that
\* Backup made, with nothing in between and no failing command, leave the
\* remote manifest and the stored images (tag and content) as they were.
C6_BackupRestoreRoundTrip ==
  [][(/\ ops = 1
      /\ last.op = "Backup"
      /\ last.result = "ok"
      /\ faults = 0
      /\ ops' = ops + 1
      /\ last'.op = "Restore"
      /\ last'.ts = last.ts
      /\ last'.fails = {})
       => (manifest' = manifest /\ images' = images)]_vars

\* C7: after more Backup runs than the retention count N > 0, each of which
\* found a manifest and in which no command failed, exactly N snapshot
\* directories remain.
C7_ExactlyRetentionRemain ==
  (/\ 0 < rollbackBackups
   /\ rollbackBackups < backups
   /\ faults = 0)
    => Cardinality(DOMAIN snapshots) = rollbackBackups

\* C8: the number of snapshot directories of the project never exceeds the
\* retention count that was last configured for it.
C8_SnapshotsWithinConfiguredCount ==
  faults = 0 => Cardinality(DOMAIN snapshots) <= registryRollback

\* C9: a run in which no command fails leaves every snapshot that it does
\* not delete exactly as it was.
C9_SnapshotsImmutable ==
  [][faults' = 0
       => \A t \in DOMAIN snapshots \cap DOMAIN snapshots' :
            snapshots'[t] = snapshots[t]]_vars

\* C10: a sync run with retention > 0 on a project whose manifest is on the
\* host, in which no command fails, makes a snapshot of the project
\* directory as it was, before its first change to that directory.
C10_SnapshotBeforeSync ==
  [][(/\ ops' = ops + 1
      /\ last'.op \in SyncOps
      /\ last'.fails = {}
      /\ rollbackBackups > 0
      /\ manifest # NoManifest)
       => (/\ now \in DOMAIN snapshots'
           /\ snapshots'[now].manifest = manifest
           /\ \E i \in DOMAIN log' :
                /\ log'[i].k = "rotate"
                /\ \A j \in 1..i : log'[j].k \in BackupKinds)]_vars

\* C11: a successful RestoreService of service s leaves the definition of
\* every other service of the remote manifest as it was just before the
\* call, and the definition of s is the one of the snapshot's manifest.
C11_OtherServicesUntouched ==
  [][(/\ ops' = ops + 1
      /\ last'.op = "RestoreService"
      /\ last'.result = "ok")
       => (/\ manifest # NoManifest
           /\ DOMAIN manifest' = DOMAIN manifest \cup {last'.svc}
           /\ \A s \in DOMAIN manifest \ {last'.svc} : manifest'[s] = manifest[s]
           /\ manifest'[last'.svc] = snapshots[last'.ts].manifest[last'.svc])]_vars

\* A successful RestoreService after which another service's definition
\* differs from the one the snapshot holds for it.
C11_Witness ==
  /\ last.op = "RestoreService"
  /\ last.result = "ok"
  /\ last.ts \in DOMAIN snapshots
  /\ manifest[last.svc] = snapshots[last.ts].manifest[last.svc]
  /\ \E s \in (DOMAIN manifest \cap DOMAIN snapshots[last.ts].manifest) \ {last.svc} :
       manifest[s] # snapshots[last.ts].manifest[s]

C13_OtherImagesUntouched ==
  [][(/\ ops' = ops + 1
      /\ last'.op = "RestoreService"
      /\ last'.fails = {}
      /\ manifest' # NoManifest
      /\ last'.svc \in DOMAIN manifest')
       => \A s \in DOMAIN manifest' \ {last'.svc} :
            LET tag == ExpectedTag(s, manifest'[s])
            IN tag # ExpectedTag(last'.svc, manifest'[last'.svc])
                 => images'[tag] = images[tag]]_vars

\* C14: after a Restore or RestoreService whose load step ran, every archive
\* of the snapshot that has a tag sidecar is in the image store under the
\* tag the sidecar records.
C14_RestoredUnderSidecarTag ==
  [][(/\ ops' = ops + 1
      /\ last'.op \in {"Restore", "RestoreService"}
      /\ last'.ts \in DOMAIN snapshots
      /\ \E i \in DOMAIN log' : log'[i] = Cmd("load_images", <<>>, TRUE))
       => \A f \in DOMAIN snapshots[last'.ts].archives :
            LET a == snapshots[last'.ts].archives[f]
            IN a.tag # NoTag => images'[a.tag] = a.img.id]_vars

\* A successful Restore of a snapshot that holds an archive whose file name
\* differs from its sidecar tag; the image is in the store under the tag.
C14_Witness ==
  /\ last.op = "Restore"
  /\ last.result = "ok"
  /\ last.ts \in DOMAIN snapshots
  /\ TagUnder \in DOMAIN snapshots[last.ts].archives
  /\ snapshots[last.ts].archives[TagUnder].tag = TagSlash
  /\ images[TagSlash] = snapshots[last.ts].archives[TagUnder].img.id

C16_ExactlyOneStrategy ==
  (/\ last.op = "SyncService"
   /\ ~last.heave
   /\ last.fails = {}
   /\ last.lm # NoManifest
   /\ last.svc \in DOMAIN last.lm)
    => LET pulled == \E i \in DOMAIN log : log[i].k = "pull"
           transferred == \E i \in DOMAIN log : log[i].k \in {"rsync", "upload_tarball"}
           built == \E i \in DOMAIN log : log[i].k = "build"
       IN \/ pulled /\ ~transferred /\ ~built
          \/ transferred /\ built /\ ~pulled

\* C19: a Backup run with retention <= 0, or with no manifest in the remote
\* project directory, is skipped: its result is "skipped", no snapshot is
\* created, changed or deleted, and no state-changing command is issued.
C19_SkippedBackupChangesNothing ==
  [][(/\ ops' = ops + 1
      /\ last'.op = "Backup"
      /\ (rollbackBackups <= 0 \/ manifest = NoManifest))
       => (/\ last'.result = "skipped"
           /\ snapshots' = snapshots
           /\ images' = images
           /\ Mutations(log') = {})]_vars

\* A skipped Backup of a deployed project whose retention is 0.
C19_Witness ==
  /\ last.op = "Backup"
  /\ last.result = "skipped"
  /\ rollbackBackups = 0
  /\ manifest # NoManifest
  /\ log = <<>>

NotBackupCmd(c) == c.k \notin BackupKinds

\* C20: a Sync or SyncService run in which only commands of the backup fail
\* issues, after the backup, the same commands with the same outcomes, and
\* returns the same result, as the run in which no command fails.
C20_BackupNeverAbortsSync ==
  [][(/\ ops' = ops + 1
      /\ last'.op \in {"Sync", "SyncService"}
      /\ last'.fails # {}
      /\ last'.fails \subseteq BackupKinds)
       => \E noCache \in BOOLEAN, rsync \in BOOLEAN :
            LET script == IF last'.op = "Sync"
                          THEN SyncScript(Host, last'.lm, noCache, last'.heave, rsync)
                          ELSE SyncServiceScript(Host, last'.lm, last'.svc, noCache,
                                                 last'.heave, rsync)
                r == Exec(Host, script, {}, 1, <<>>)
            IN /\ last'.result = r.result
               /\ SelectSeq(log', NotBackupCmd) = r.log
               /\ manifest' = r.st.manifest
               /\ running' = r.st.running]_vars

\* A Sync whose backup returned an error (the timestamp query failed) and
\* that still uploaded, built and started the project.
C20_Witness ==
  /\ last.op = "Sync"
  /\ last.fails = {"date"}
  /\ last.backup = "error"
  /\ last.result = "ok"
  /\ \E i \in DOMAIN log : log[i] = Cmd("up", <<"--pull", "always">>, TRUE)

\* C17: in the manifest that goes up after the transform, a service that had
\* a literal environment entry or an included environment file has no
\* literal environment block, only the reference to its merged env file.
C17_NoLiteralEnvironment ==
  (/\ transform.done
   /\ \/ transform.service.environment # 0
      \/ MergedFiles(transform.service, transform.envname, transform.unread) # {})
    => (/\ transform.uploaded.environment = 0
        /\ transform.uploaded.env_file = MergedReference)

\* A file is scoped to an environment when its name holds ".<env>." or ends
\* in ".<env>".
ScopedTo(basename, envname) ==
  \/ Contains(basename, Dot \o envname \o Dot)
  \/ HasSuffix(basename, Dot \o envname)

\* C18: when the merged env file is written, a readable environment file of
\* the service is merged into it if and only if its name is scoped to the
\* target environment, or it has at most one dot and the target is "prod".
C18_MergedIffScopedOrGenericProd ==
  (transform.done /\ transform.writeOk)
    => \A f \in transform.service.env_file \ transform.unread :
         f \in transform.merged
           <=> \/ ScopedTo(f, transform.envname)
               \/ CountDots(f) <= 1 /\ transform.envname = Prod

\* The transfers a sync cannot do without: the source of a service (rsync,
\* or the tarball and its extraction), the merged env files, the manifest.
TransferKinds == {"rsync", "upload_tarball", "extract", "upload_env",
                  "upload_manifest"}
StartKinds == {"pull", "build", "up"}

\* The i-th command of l is a transfer that failed; an rsync that is not
\* installed and is followed by the tarball upload is the fallback, not a
\* failure.
FailedTransfer(l, i, kinds) ==
  /\ l[i].k \in kinds
  /\ ~l[i].ok
  /\ ~(/\ l[i].k = "rsync"
       /\ i < Len(l)
       /\ l[i + 1].k = "upload_tarball")

NoStartAfter(l, i) == \A j \in (i + 1)..Len(l) : l[j].k \notin StartKinds

\* C21: in a Sync or SyncService, when a source transfer, an env file upload
\* or the manifest upload fails, the sync returns an error and no pull,
\* build or start is issued after the failed transfer.
C21_TransferFailureAborts ==
  last.op \in {"Sync", "SyncService"}
    => \A i \in DOMAIN log :
         FailedTransfer(log, i, TransferKinds)
           => last.result = "error" /\ NoStartAfter(log, i)

\* The same as C21 for the source and manifest transfers alone.
C21_SourceAndManifestFatal ==
  last.op \in {"Sync", "SyncService"}
    => \A i \in DOMAIN log :
         FailedTransfer(log, i, TransferKinds \ {"upload_env"})
           => last.result = "error" /\ NoStartAfter(log, i)

\* C22: in a Restore or RestoreService, when loading the snapshot's image
\* archives fails, the rollback returns an error and the restart command is
\* not issued after the failed load.
C22_LoadFailureAborts ==
  last.op \in {"Restore", "RestoreService"}
    => \A i \in DOMAIN log :
         (log[i].k = "load_images" /\ ~log[i].ok)
           => /\ last.result = "error"
              /\ \A j \in (i + 1)..Len(log) : log[j].k # "up_pull_never"

\* C23: every (project, environment) pair has one remote directory, and two
\* distinct pairs never have the same one.
C23_RemoteDirsDistinct ==
  \A a, b \in projectDirs :
    /\ (a.name = b.name /\ a.envname = b.envname) => a.dir = b.dir
    /\ a.dir = b.dir => (a.name = b.name /\ a.envname = b.envname)

\* Two commands of a log are the same command when kind and argument agree.
SameCommand(c, d) == c.k = d.k /\ c.a = d.a

SyncPhase(k) ==
  CASE k \in {"mkdir_svc", "rsync", "upload_tarball", "extract"} -> 1
    [] k \in {"mkdir_env", "upload_env", "upload_manifest"} -> 2
    [] k \in {"builder_prune", "build"} -> 3
    [] k = "up" -> 4
    [] k = "image_prune" -> 5
    [] OTHER -> 0

\* Some command of kind k succeeded before position i of l.
SucceededBefore(l, i, k) == \E j \in 1..(i - 1) : l[j].k = k /\ l[j].ok

\* C25: in a Sync without heave the commands come in the order of the
\* phases (source transfers, env files and manifest, build, start, prune);
\* the build is issued only after the manifest upload succeeded, the start
\* only after the build succeeded, the prune only after the start succeeded.
C25_SyncPhasesOrdered ==
  (last.op = "Sync" /\ ~last.heave)
    => /\ \A i, j \in DOMAIN log :
            i < j => SyncPhase(log[i].k) <= SyncPhase(log[j].k)
       /\ \A i \in DOMAIN log :
            /\ log[i].k = "build" => SucceededBefore(log, i, "upload_manifest")
            /\ log[i].k = "up" => SucceededBefore(log, i, "build")
            /\ log[i].k = "image_prune" => SucceededBefore(log, i, "up")

\* A Sync without heave that went through all five phases.
C25_Witness ==
  /\ last.op = "Sync"
  /\ ~last.heave
  /\ last.result = "ok"
  /\ \A ph \in 1..5 : \E i \in DOMAIN log : SyncPhase(log[i].k) = ph /\ log[i].ok

\* The phase of a command of SyncService: 1 stop and remove the container,
\* 2 pull, or cache purge and build, 3 start, 4 prune of old images; 0 for
\* what comes before (the backup, the uploads).
ServicePhase(k) ==
  CASE k = "stop_rm" -> 1
    [] k \in {"pull", "builder_prune", "build"} -> 2
    [] k = "up" -> 3
    [] k = "image_prune" -> 4
    [] OTHER -> 0

\* C26: in a SyncService without heave the commands come in the order stop
\* and remove, pull or (cache purge and) build, start, prune; a failed stop
\* does not end the run; the start is issued only after the pull or the
\* build succeeded; a failed pull or build gives an error with no start
\* after it, the stop having been issued before it.
C26_ServicePhasesOrdered ==
  (last.op = "SyncService" /\ ~last.heave)
    => /\ \A i, j \in DOMAIN log :
            i < j => ServicePhase(log[i].k) <= ServicePhase(log[j].k)
       /\ \A i \in DOMAIN log :
            /\ log[i].k = "stop_rm"
                 => /\ log[i].a = <<last.svc>>
                    /\ i < Len(log)
                    /\ ServicePhase(log[i + 1].k) = 2
            /\ log[i].k = "up"
                 => \/ SucceededBefore(log, i, "pull")
                    \/ SucceededBefore(log, i, "build")
            /\ (log[i].k \in {"pull", "build"} /\ ~log[i].ok)
                 => /\ last.result = "error"
                    /\ i = Len(log)
                    /\ \E j \in 1..(i - 1) : log[j].k = "stop_rm"

\* A SyncService whose stop was issued and whose pull then failed.
C26_Witness ==
  /\ last.op = "SyncService"
  /\ ~last.heave
  /\ last.result = "error"
  /\ \E i \in DOMAIN log :
       /\ log[i].k = "pull" /\ ~log[i].ok
       /\ \E j \in 1..(i - 1) : log[j].k = "stop_rm" /\ log[j].ok

\* A SyncService that stopped, built, started and pruned.
C26_WitnessBuilt ==
  /\ last.op = "SyncService"
  /\ ~last.heave
  /\ last.result = "ok"
  /\ \A ph \in 1..4 : \E i \in DOMAIN log : ServicePhase(log[i].k) = ph
  /\ \E i \in DOMAIN log : log[i].k = "build" /\ log[i].ok

\* C27: after a transfer that fell back to the tarball and succeeded, the
\* remote service directory holds exactly the files of the archive, and no
\* file that was there before and is not in the archive.
C27_FallbackWipesAndReplaces ==
  (serviceDir.op \in {"Sync", "SyncService"} /\ ~serviceDir.rsync
   /\ serviceDir.result = "ok")
    => /\ serviceDir.files = createTarball(serviceDir.local)
       /\ (serviceDir.before \ createTarball(serviceDir.local))
            \cap serviceDir.files = {}

\* The same as C27 for SyncService alone.
C27_ServiceFallbackWipes ==
  (serviceDir.op = "SyncService" /\ ~serviceDir.rsync /\ serviceDir.result = "ok")
    => serviceDir.files = createTarball(serviceDir.local)

\* A SyncService that fell back to the tarball over a directory that held a
\* file the archive does not hold.
C27_ServiceWitness ==
  /\ serviceDir.op = "SyncService"
  /\ ~serviceDir.rsync
  /\ serviceDir.result = "ok"
  /\ serviceDir.before \ createTarball(serviceDir.local) # {}

\* The step of a command of RestoreRollback: 1 manifest and env files
\* copied back, 2 expected tags read, 3 services stopped, 4 images of the
\* expected tags removed, 5 archives loaded, 6 restart.
RestorePhase(k) ==
  CASE k \in {"cp_manifest_restore", "cp_env_restore"} -> 1
    [] k = "config_images" -> 2
    [] k = "down" -> 3
    [] k = "rmi" -> 4
    [] k = "load_images" -> 5
    [] k = "up_pull_never" -> 6
    [] OTHER -> 0

\* C28: a Restore issues its steps in the order copy back the manifest and
\* the env files, read the expected tags of the restored manifest, stop all
\* services, remove the image of every expected tag, load the archives,
\* restart.  The archives are loaded after the stop and the removals, so
\* what was loaded is in the store afterwards; the restart pulls nothing: it
\* succeeds only with every image-only service's image in the store.
C28_RestoreOrdered ==
  last.op = "Restore"
    => /\ \A i \in DOMAIN log : RestorePhase(log[i].k) > 0
       /\ \A i, j \in DOMAIN log :
            i < j => RestorePhase(log[i].k) <= RestorePhase(log[j].k)
       /\ \A ph \in {1, 2, 3, 5, 6} :
            \E i \in DOMAIN log : RestorePhase(log[i].k) = ph
       /\ \A i \in DOMAIN log :
            /\ log[i].k = "rmi" => log[i].a \in ImageTags(manifest)
            /\ (log[i].k = "config_images" /\ log[i].ok)
                 => \A t \in ImageTags(manifest) :
                      \E j \in DOMAIN log : log[j] = Cmd("rmi", t, "rmi" \notin last.fails)
       /\ (last.fails = {} /\ last.ts \in DOMAIN snapshots)
            => \A f \in DOMAIN snapshots[last.ts].archives :
                 LET a == snapshots[last.ts].archives[f]
                 IN images[a.img.tag] = a.img.id
       /\ last.result = "ok"
            => /\ running = DOMAIN manifest
               /\ \A s \in DOMAIN manifest :
                    manifest[s].build = NoBuild
                      => images[ExpectedTag(s, manifest[s])] # NoImage

\* A Restore of a snapshot with archives, no command failing, that removed
\* an image, loaded the archives and restarted the project.
C28_Witness ==
  /\ last.op = "Restore"
  /\ last.fails = {}
  /\ last.result = "ok"
  /\ last.ts \in DOMAIN snapshots
  /\ DOMAIN snapshots[last.ts].archives # {}
  /\ \E i \in DOMAIN log : log[i].k = "rmi" /\ log[i].ok

\* The expected tags whose sanitized form is the file name of the archive.
Matching(fname, order) ==
  {order[i] : i \in {j \in DOMAIN order : Sanitize(order[j]) = fname}}

\* C29: for an archive without a sidecar the resolved tag is the expected
\* tag whose sanitized form is the archive's file name, and there is at most
\* one such expected tag.
C29_FallbackUnambiguous ==
  (resolved.done /\ resolved.sidecar = NoTag)
    => /\ Matching(resolved.fname, resolved.order) # {}
            => resolved.tag \in Matching(resolved.fname, resolved.order)
       /\ Cardinality(Matching(resolved.fname, resolved.order)) <= 1

\* The first half of C29 alone: the resolved tag is an expected tag whose
\* sanitized form is the file name, when there is one.
C29_ResolvedTagMatches ==
  (resolved.done /\ resolved.sidecar = NoTag
   /\ Matching(resolved.fname, resolved.order) # {})
    => resolved.tag \in Matching(resolved.fname, resolved.order)

\* C30: when the merged env file of a service cannot be written (or its
\* directory cannot be made), the sync returns an error, the manifest is not
\* uploaded and nothing is built or started.
C30_WriteFailureAborts ==
  (transform.done /\ transform.err)
    => /\ transform.after.result = "error"
       /\ ~transform.after.manifestUploaded
       /\ ~transform.after.started

\* The transform itself reports the failure: it returns an error exactly
\* when there was something to write and the write failed, and then leaves
\* the service as it was.
C30_TransformReturnsError ==
  transform.done
    => /\ transform.err
            <=> /\ ~transform.writeOk
                /\ \/ transform.service.environment # 0
                   \/ MergedFiles(transform.service, transform.envname,
                                  transform.unread) # {}
       /\ transform.err => transform.uploaded = transform.service

C31_WrittenFileUploaded ==
  (transform.done /\ ~transform.err
   /\ transform.uploaded.env_file = MergedReference)
    => transform.remoteEnv = {MergedEnvPath(transform.envname)}

\* C32: in every manifest a sync uploads, a service labelled git-images
\* that has a build descriptor in the local file has the registry image of
\* the repository and the service, and no build descriptor.
C32_GitImagesHaveNoBuild ==
  (last.op \in SyncOps /\ last.lm # NoManifest
   /\ \E i \in DOMAIN log : log[i].k = "upload_manifest" /\ log[i].ok)
    => \A s \in DOMAIN last.lm :
         IsGitImages(last.lm[s])
           => /\ s \in DOMAIN manifest
              /\ manifest[s].build = NoBuild
              /\ manifest[s].image = GhcrTag(s)

\* The rewrite as SyncComposeOnly does it when the origin URL is an https
\* or a git@ URL.
C32_RewrittenWhenResolved ==
  (last.op = "SyncComposeOnly" /\ last.lm # NoManifest
   /\ last.url.scheme \in {"https://", "git@"}
   /\ \E i \in DOMAIN log : log[i].k = "upload_manifest" /\ log[i].ok)
    => \A s \in DOMAIN last.lm :
         IsGitImages(last.lm[s])
           => /\ manifest[s].build = NoBuild
              /\ manifest[s].image = GhcrTag(s)

\* A SyncComposeOnly that rewrote a git-images service from an https URL
\* with an upper-case owner.
C32_RewrittenWitness ==
  /\ last.op = "SyncComposeOnly"
  /\ last.url.scheme = "https://"
  /\ last.lm = ManifestGitImages
  /\ manifest # NoManifest
  /\ manifest["web"].image = GhcrTag("web")

\* C33: two syncs with --git that differ in the working directory only
\* return the same result and send the same files, the files of the
\* resolved commit below the build context.
C33_WorkingDirIrrelevant ==
  gitExport.done
    => /\ gitExport.a.result = gitExport.b.result
       /\ gitExport.a.files = gitExport.b.files
       /\ gitExport.a.result = "ok"
            => gitExport.a.files = Below(CommitTree(gitExport.a.commit), gitExport.ctx)

\* The same of the whole-project Sync alone.
C33_SyncIgnoresWorkingDir ==
  (gitExport.done /\ gitExport.op = "Sync")
    => /\ gitExport.a = gitExport.b
       /\ gitExport.a.result = "ok"
            => gitExport.a.files = Below(CommitTree(gitExport.a.commit), gitExport.ctx)

\* What a SyncService that got as far as the export sends is the commit's.
C33_ServiceSendsCommit ==
  (gitExport.done /\ gitExport.a.result = "ok")
    => gitExport.a.files = Below(CommitTree(gitExport.a.commit), gitExport.ctx)

\* A Sync of a commit from a working directory with a file that was never
\* committed.
C33_SyncWitness ==
  /\ gitExport.done /\ gitExport.op = "Sync"
  /\ gitExport.a.result = "ok"
  /\ <<"new.go">> \in gitExport.wdA
  /\ <<"Dockerfile">> \notin gitExport.wdB

\* C34: the commit of a sync with --git is --commit when given, else the
\* latest commit of --branch when given, else the latest commit of the
\* current branch.
C34_CommitResolved ==
  (gitExport.done /\ gitExport.a.commit # NoCommit)
    => gitExport.a.commit =
         IF gitExport.gitCommit # NoCommit THEN gitExport.gitCommit
         ELSE GetLatestCommit(IF gitExport.gitBranch # NoBranch
                              THEN gitExport.gitBranch ELSE gitExport.current)

\* The two explicit cases: --commit as given, else the latest of --branch.
C34_ExplicitFlagsUsed ==
  (gitExport.done /\ gitExport.a.commit # NoCommit)
    => /\ gitExport.gitCommit # NoCommit => gitExport.a.commit = gitExport.gitCommit
       /\ (gitExport.gitCommit = NoCommit /\ gitExport.gitBranch # NoBranch)
            => gitExport.a.commit = GetLatestCommit(gitExport.gitBranch)

\* A sync without --branch and --commit on main in a project bound to dev.
C34_BoundBranchWitness ==
  /\ gitExport.done /\ gitExport.a.result = "ok"
  /\ gitExport.gitCommit = NoCommit /\ gitExport.gitBranch = NoBranch
  /\ gitExport.metaBranch = "dev" /\ gitExport.current = "main"

\* The backup of invocation p has run all its commands.
BackupFinished(p) == racing.pc[p] > 3

\* The snapshot of invocation p is not the state any finished invocation
\* (or the deployment before the two) left.
Torn(p) == BackupFinished(p) /\ racing.snap[p] \notin racing.left

\* C35: a snapshot that matches no state left by a completed invocation is
\* written only when the commands of two invocations interleave: with one
\* invocation at a time there is none.
C35_TornOnlyWhenConcurrent ==
  \A p \in Procs : Torn(p) => ~racing.serial

\* One invocation at a time, and no command fails: every snapshot is a
\* state that a completed invocation left.
C35_SerialWholeIfNoFailure ==
  (racing.serial /\ racing.failures = 0) => \A p \in Procs : ~Torn(p)

\* The backup of the second invocation ran between the uploads and the
\* build of the first: it holds the new manifest and the old image.
C35_TornBetweenUploadAndBuild ==
  /\ ~racing.serial /\ racing.failures = 0
  /\ Torn(2)
  /\ racing.snap[2] = [manifest |-> 1, env |-> 1, image |-> 0]

\* A whole-project Restore of an existing snapshot in which no command fails.
CleanRestore ==
  /\ ops' = ops + 1
  /\ last'.op = "Restore"
  /\ last'.ts \in DOMAIN snapshots
  /\ last'.fails = {}

\* C36: after a whole-project Restore every tag that the restored manifest
\* expects and that had an image before the rollback still has one.
C36_PresentExpectedTagsKept ==
  [][(CleanRestore /\ manifest' # NoManifest)
       => \A t \in ImageTags(manifest') :
            images[t] # NoImage => images'[t] # NoImage]_vars

\* What Restore does keep: a tag that the restored manifest does not expect
\* and that no archive of the snapshot restores.
C36_OtherTagsLeftInPlace ==
  [][CleanRestore
       => \A t \in Tags :
            (/\ t \notin RestoreTags(last'.ts, {})
             /\ \A f \in DOMAIN snapshots[last'.ts].archives :
                  /\ LoadedTag(f, snapshots[last'.ts].archives[f]) # t
                  /\ ResolveTag(f, snapshots[last'.ts].archives[f],
                                ImageTags(manifest')) # t)
              => images'[t] = images[t]]_vars

\* The remote service directory of service s of the local manifest, and
\* whether the last run sent source into it.
ServiceDirOf(s) == <<ContextName(s, last.lm[s].build)>>
SentSource(s) ==
  \E i \in DOMAIN log :
    log[i] \in {Cmd("rsync", ServiceDirOf(s), TRUE),
                Cmd("extract", ServiceDirOf(s), TRUE)}
ManifestUploaded ==
  \E i \in DOMAIN log : log[i].k = "upload_manifest" /\ log[i].ok

\* C37: in the manifest that Sync or SyncService uploads, the build context
\* of a server-build service whose source the run sent is the directory the
\* source went into, and SyncService uploads the definitions Sync uploads.
C37_ContextIsTransferDir ==
  (last.op \in {"Sync", "SyncService"} /\ last.lm # NoManifest /\ ManifestUploaded)
    => /\ \A s \in DOMAIN last.lm :
            (IsServerBuild(last.lm[s]) /\ SentSource(s))
              => manifest[s].build = ServiceDirOf(s)
       /\ manifest = SyncTransform(last.lm)

\* The same of Sync alone.
C37_SyncContextIsTransferDir ==
  (last.op = "Sync" /\ last.lm # NoManifest /\ ManifestUploaded)
    => /\ \A s \in DOMAIN last.lm :
            (IsServerBuild(last.lm[s]) /\ SentSource(s))
              => manifest[s].build = ServiceDirOf(s)
       /\ manifest = SyncTransform(last.lm)

\* A Sync that sent the source of api (context src/api) and uploaded the
\* manifest with context api.
C37_SyncWitness ==
  /\ last.op = "Sync" /\ last.lm = ManifestPullBuild /\ ManifestUploaded
  /\ SentSource("api")
  /\ manifest["api"].build = <<"api">>

\* With --git, the directory a Sync sends the source into is the one its
\* manifest names.
C37_GitContextIsTransferDir ==
  (gitExport.done /\ gitExport.a.result = "ok")
    => gitExport.a.dir = gitExport.a.context

\* C38: a Sync sends the sources of two server-build services into two
\* directories, and after the run each directory holds the source of its
\* service.
C38_ServiceDirsDistinct ==
  contextDirs.done
    => \A s, t \in Services :
         /\ s # t => ContextName(s, contextDirs.ctx[s]) # ContextName(t, contextDirs.ctx[t])
         /\ contextDirs.dirs[ContextName(s, contextDirs.ctx[s])]
              = LocalSource(contextDirs.ctx[s])

\* Services whose context names differ keep their sources apart.
C38_DistinctNamesKeepSources ==
  (contextDirs.done
   /\ \A s, t \in Services :
        s # t => ContextName(s, contextDirs.ctx[s]) # ContextName(t, contextDirs.ctx[t]))
    => \A s \in Services :
         contextDirs.dirs[ContextName(s, contextDirs.ctx[s])]
           = LocalSource(contextDirs.ctx[s])

\* Two services with contexts web/src and api/src, sent by rsync: the
\* directory src holds the source of the later one only.
C38_SharedDirWitness ==
  /\ contextDirs.done /\ contextDirs.rsync
  /\ contextDirs.ctx["web"] = <<"web", "src">>
  /\ contextDirs.ctx["api"] = <<"api", "src">>
  /\ contextDirs.order[2] = "api"
  /\ contextDirs.dirs["src"] = {<<"api.go">>}

\* A Backup in which no command fails and that makes a new snapshot
\* directory.
CleanBackup ==
  /\ ops' = ops + 1
  /\ last'.op = "Backup"
  /\ last'.result = "ok"
  /\ last'.fails = {}
  /\ now \notin DOMAIN snapshots

\* The tags of the manifest that resolve to an image.
SavedTags == {t \in ImageTags(BackupManifest(pname)) : images[t] # NoImage}

\* C39: a Backup writes one archive per tag of the manifest that resolves
\* to an image, and the archive of each tag holds the image of that tag.
C39_OneArchivePerTag ==
  [][CleanBackup
       => /\ Cardinality(DOMAIN snapshots'[now].archives) = Cardinality(SavedTags)
          /\ \A t \in SavedTags :
               /\ Sanitize(t) \in DOMAIN snapshots'[now].archives
               /\ snapshots'[now].archives[Sanitize(t)]
                    = [tag |-> t, img |-> [tag |-> t, id |-> images[t]]]]_vars

\* The same when no two of the tags have the same sanitized name.
C39_DistinctNamesSaved ==
  [][(CleanBackup /\ \A t, u \in SavedTags : Sanitize(t) = Sanitize(u) => t = u)
       => /\ Cardinality(DOMAIN snapshots'[now].archives) = Cardinality(SavedTags)
          /\ \A t \in SavedTags :
               /\ Sanitize(t) \in DOMAIN snapshots'[now].archives
               /\ snapshots'[now].archives[Sanitize(t)]
                    = [tag |-> t, img |-> [tag |-> t, id |-> images[t]]]]_vars

\* C40: two runs of the transform on the same manifest, files and secret
\* store write the same merged env file.
C40_TransformDeterministic ==
  mergedRuns.done => mergedRuns.a = mergedRuns.b

\* The lines of a sequence, without their order.
LineSet(lines) == {lines[i] : i \in DOMAIN lines}

\* With an environment block in list form and secrets whose values hold no
\* placeholder the two runs agree; with a block in map form and such
\* secrets they write the same lines, in any order.
C40_PlainSecretsSameLines ==
  (mergedRuns.done
   /\ \A k \in SecretKeys : \A i \in DOMAIN mergedRuns.secrets[k] :
        mergedRuns.secrets[k][i] \notin {Placeholder(j) : j \in SecretKeys})
    => /\ LineSet(mergedRuns.a) = LineSet(mergedRuns.b)
       /\ mergedRuns.form = "list" => mergedRuns.a = mergedRuns.b

\* Two runs on a list-form block with a secret that holds the other's
\* placeholder: one resolved it, the other left it in the file.
C40_ChainedWitness ==
  /\ mergedRuns.done /\ mergedRuns.form = "list"
  /\ mergedRuns.a[1] = <<"X", "=", "2">>
  /\ mergedRuns.b[1] = <<"X", "=", "${B}">>

====
